---- MODULE Spec2Model ----
(***************************************************************************)
(* Verification model of manycore_parser: the topology data model, the     *)
(* dimension-order routing engine (routing.rs), the boundary               *)
(* classification of cores (cores.rs) and the load bookkeeping.            *)
(*                                                                         *)
(* Option<T> values are sequences of length 0 (None) or 1 (Some(x)).       *)
(* Result values are records with a "status" field: "ok", "err" (an Err    *)
(* was returned) or "panic" (the thread aborted, e.g. on arithmetic        *)
(* overflow when the build has overflow checks).                           *)
(***************************************************************************)
EXTENDS Integers, Sequences, FiniteSets, TLC

VARIABLES
    rows,           \* ManycoreSystem.rows
    columns,        \* ManycoreSystem.columns
    cores,          \* ManycoreSystem.cores.list, indexed 0..last
    task_graph,     \* ManycoreSystem.task_graph.edges
    task_core_map,  \* ManycoreSystem.task_core_map
    connections,    \* ManycoreSystem.connections: core index -> Neighbours
    algorithm,      \* algorithm of the last routing call, <<>> before the first
    result,         \* outcome of the last routing call: "none", "ok", "err", "panic"
    report,         \* the map returned by the last successful call (core -> directions pushed)
    walks,          \* per edge of the last call: start, destination, final current_idx, hops taken
    calls,          \* number of routing calls made so far
    matrix_edge,    \* Core.matrix_edge of every core: core id -> Option<EdgePosition>
    classified,     \* ids of the cores on which populate_matrix_edge has run
    channels,       \* Core.channels of every core: core id -> (direction -> current_load)
    source_loads,   \* Core.source_loads of every core: core id -> Option<direction -> load>
    sources,        \* Borders.sources: task id -> Source
    sinks,          \* Borders.sinks: task id -> Sink
    core_border_map, \* Borders.core_border_map: core id -> (direction -> BorderEntry)
    last_call,      \* the last call made: its arguments and the state before it
    reader,         \* threaded_deserialise: the main thread, its position in the file, its locals
    workers,        \* threaded_deserialise: the spawned threads in spawn order, each one's position
    semaphore       \* threaded_deserialise: threading_semaphore, its tokens and the holder of its mutex

routing_vars == <<rows, columns, cores, task_graph, task_core_map,
                  connections, algorithm, result, report, walks, calls>>

cores_vars == <<matrix_edge, classified>>

borders_vars == <<channels, source_loads, sources, sinks>>

loads_vars == <<last_call>>

deser_vars == <<reader, workers, semaphore>>

border_map_vars == <<core_border_map>>

vars == <<routing_vars, cores_vars, borders_vars, loads_vars, deser_vars, border_map_vars>>

-----------------------------------------------------------------------------
(* Bounds of the model *)

MaxEdges == 3
MaxCalls == 2
MaxDim == 3
MaxOps == 3
MaxCores == 4
MaxIngestDim == 2
MaxGroupLen == 3

\* Mesh dimensions <<rows, columns>> explored by the routing model.
Dims == {<<2, 2>>, <<2, 3>>, <<3, 3>>}

\* Cores <<s, d>> holding the two allocated tasks.  The 3x3 mesh is the one of
\* the test file (task 2 on core 7, task 3 on core 1); on the smaller meshes
\* the tasks sit on any two different cores.
Placements(r, c) ==
    IF <<r, c>> = <<3, 3>> THEN {<<7, 1>>}
    ELSE {p \in (0..(r * c - 1)) \X (0..(r * c - 1)) : p[1] # p[2]}

\* Task ids allocated on cores, and the edges a task graph is drawn from.
\* Task 9 is allocated nowhere.
AllocatedTasks == <<2, 3>>
EdgeSet ==
    { [from |-> 2, to |-> 3, communication_cost |-> 50],
      [from |-> 2, to |-> 3, communication_cost |-> 200],
      [from |-> 2, to |-> 9, communication_cost |-> 50],
      [from |-> 9, to |-> 3, communication_cost |-> 50] }

U8Max == 255
U16Max == 65535

None == <<>>
Some(x) == <<x>>
IsSome(o) == Len(o) = 1
Unwrap(o) == o[1]

Sides == {"top", "right", "bottom", "left"}
RoutingAlgorithms == {"Observed", "RowFirst", "ColumnFirst"}

-----------------------------------------------------------------------------
(* u8 arithmetic: on overflow the build decides, a build with overflow checks *)
(* (checks = TRUE, the debug and test profiles) panics, one without wraps.   *)

U8Add(a, b, checks) ==
    IF a + b <= U8Max THEN [status |-> "ok", val |-> a + b]
    ELSE IF checks THEN [status |-> "panic", val |-> a]
    ELSE [status |-> "ok", val |-> (a + b) % (U8Max + 1)]

U8Sub(a, b, checks) ==
    IF a - b >= 0 THEN [status |-> "ok", val |-> a - b]
    ELSE IF checks THEN [status |-> "panic", val |-> a]
    ELSE [status |-> "ok", val |-> (a - b) % (U8Max + 1)]

\* u16 addition as the += of Channels::add_to_cost performs it.
U16Add(a, b, checks) ==
    IF a + b <= U16Max THEN [status |-> "ok", val |-> a + b]
    ELSE IF checks THEN [status |-> "panic", val |-> a]
    ELSE [status |-> "ok", val |-> (a + b) % (U16Max + 1)]

\* u16::saturating_add
saturating_add(a, b) == IF a + b <= U16Max THEN a + b ELSE U16Max

-----------------------------------------------------------------------------
(* Construction: ManycoreSystem::parse_file *)

\* Neighbour::new
Neighbour_new(id) == IF IsSome(id) THEN Some([id |-> Unwrap(id), link_cost |-> 0]) ELSE None

\* The neighbours of core index i, as parse_file computes them from the
\* number of columns and the index of the last core.
parse_neighbours(i, usize_columns, last) ==
    [ right  |-> IF (i + 1) % usize_columns # 0 THEN Neighbour_new(Some(i + 1)) ELSE None,
      left   |-> IF i % usize_columns # 0 THEN Neighbour_new(Some(i - 1)) ELSE None,
      top    |-> IF i >= usize_columns THEN Neighbour_new(Some(i - usize_columns)) ELSE None,
      bottom |-> IF i + usize_columns <= last THEN Neighbour_new(Some(i + usize_columns)) ELSE None ]

parse_connections(usize_columns, last) ==
    [i \in 0..last |-> parse_neighbours(i, usize_columns, last)]

\* task -> core map: cores are visited in index order and a later insert
\* replaces an earlier one for the same task id.
parse_task_core_map(list, last) ==
    LET tasks == {Unwrap(list[i].allocated_task) : i \in {j \in 0..last : IsSome(list[j].allocated_task)}}
        holder(t) == CHOOSE i \in 0..last :
                        /\ list[i].allocated_task = Some(t)
                        /\ \A j \in 0..last : list[j].allocated_task = Some(t) => j <= i
    IN [t \in tasks |-> holder(t)]

\* The sorted core list with tasks AllocatedTasks[1], AllocatedTasks[2] on cores s and d.
CoreList(n, s, d) ==
    [i \in 0..(n - 1) |->
        [id |-> i,
         allocated_task |-> IF i = s THEN Some(AllocatedTasks[1])
                            ELSE IF i = d THEN Some(AllocatedTasks[2])
                            ELSE None]]

EdgeSeqs == UNION {[1..n -> EdgeSet] : n \in 0..MaxEdges}

-----------------------------------------------------------------------------
(* Routing: routing.rs *)
(* A value computed once and used several times is bound as x \in {e}.      *)

The(S) == CHOOSE x \in S : TRUE

Err == [status |-> "err"]

\* ManycoreSystem::task_id_to_core_id
task_id_to_core_id(map, task_id) ==
    IF task_id \in DOMAIN map THEN [status |-> "ok", val |-> map[task_id]] ELSE Err

\* ManycoreSystem::calculate_edge_routing_information
calculate_edge_routing_information(list, map, edge, cols, rws) ==
    The({ IF s.status # "ok" THEN Err
          ELSE IF d.status # "ok" THEN Err
          ELSE [status |-> "ok",
                val |-> [start_id |-> list[s.val].id,
                         start_column |-> list[s.val].id % cols,
                         destination_id |-> list[d.val].id,
                         current_column |-> list[s.val].id % cols,
                         current_row |-> list[s.val].id \div rws,
                         destination_column |-> list[d.val].id % cols,
                         destination_row |-> list[d.val].id \div rws,
                         communication_cost |-> edge.communication_cost]] :
          s \in {task_id_to_core_id(map, edge.from)},
          d \in {task_id_to_core_id(map, edge.to)} })

\* Variant of Neighbour::add_to_cost that adds the cost twice.
Neighbour_add_to_cost_twice(neighbour, cost, checks) ==
    The({ [status |-> sum.status, val |-> [neighbour EXCEPT !.link_cost = sum.val]] :
          sum \in {U8Add(neighbour.link_cost, cost + cost, checks)} })

\* Neighbour::add_to_cost
Neighbour_add_to_cost(neighbour, cost, checks) ==
    The({ [status |-> sum.status, val |-> [neighbour EXCEPT !.link_cost = sum.val]] :
          sum \in {U8Add(neighbour.link_cost, cost, checks)} })

\* ManycoreSystem::update_neighbour: the selected neighbour with the cost added.
update_neighbour(neighbours, cost, side, checks) ==
    IF ~IsSome(neighbours[side])
    THEN [status |-> "err", neighbours |-> neighbours, neighbour |-> None]
    ELSE The({ [status |-> added.status,
                neighbours |-> [neighbours EXCEPT ![side] = Some(added.val)],
                neighbour |-> Some(added.val)] :
               added \in {Neighbour_add_to_cost(Unwrap(neighbours[side]), cost, checks)} })

\* The row or column counter moved by one (*delta_target += 1 / -= 1).
MoveDelta(delta_target, positive_delta, checks) ==
    IF positive_delta THEN U8Add(delta_target, 1, checks) ELSE U8Sub(delta_target, 1, checks)

\* ManycoreSystem::update_connection: delta_target is the row or column counter.
update_connection(neighbours, cost, delta_target, positive_delta, side, checks) ==
    The({ IF upd.status # "ok"
          THEN [status |-> upd.status, neighbours |-> upd.neighbours,
                delta_target |-> delta_target, id |-> 0]
          ELSE The({ [status |-> delta.status, neighbours |-> upd.neighbours,
                      delta_target |-> delta.val, id |-> Unwrap(upd.neighbour).id] :
                     delta \in {MoveDelta(delta_target, positive_delta, checks)} }) :
          upd \in {update_neighbour(neighbours, cost, side, checks)} })

\* FIFODirection pushed to the report for a hop over a side.
FIFODirection(side) ==
    CASE side = "top" -> "NorthOutput"
      [] side = "bottom" -> "SouthOutput"
      [] side = "left" -> "WestOutput"
      [] side = "right" -> "EastOutput"

\* The loop state s (eri, current_idx, connections, ret, path, steps) after a
\* hop over a side whose update_connection returned uc; counter is the eri
\* field moved.  steps keeps the counter before and after every iteration.
AfterHop(s, side, counter, uc) ==
    [status |-> uc.status,
     eri |-> [s.eri EXCEPT ![counter] = uc.delta_target],
     current_idx |-> IF uc.status = "ok" THEN uc.id ELSE s.current_idx,
     connections |-> [s.connections EXCEPT ![s.current_idx] = uc.neighbours],
     ret |-> [s.ret EXCEPT ![s.current_idx] = Append(@, FIFODirection(side))],
     path |-> Append(s.path, <<s.current_idx, side>>),
     steps |-> Append(s.steps, [counter |-> counter, side |-> side, status |-> uc.status,
                                before |-> s.eri[counter], after |-> uc.delta_target])]

\* One hop on the row counter: going up if start_id > destination_id, else down.
RowHop(s, checks) ==
    The({ AfterHop(s, side, "current_row",
                   update_connection(s.connections[s.current_idx], s.eri.communication_cost,
                                     s.eri.current_row, side = "bottom", side, checks)) :
          side \in {IF s.eri.start_id > s.eri.destination_id THEN "top" ELSE "bottom"} })

\* One hop on the column counter: going left if start_column > destination_column,
\* else right.
ColumnHop(s, checks) ==
    The({ AfterHop(s, side, "current_column",
                   update_connection(s.connections[s.current_idx], s.eri.communication_cost,
                                     s.eri.current_column, side = "right", side, checks)) :
          side \in {IF s.eri.start_column > s.eri.destination_column THEN "left" ELSE "right"} })

\* Status "break": the destination test of the loop succeeded.
Break(s) == [s EXCEPT !.status = "break"]

\* An iteration of row_first, were the columns compared before the rows.
row_first_step_columns(s, checks) ==
    IF s.current_idx \notin DOMAIN s.connections THEN [s EXCEPT !.status = "err"]
    ELSE IF s.eri.destination_column # s.eri.current_column THEN ColumnHop(s, checks)
    ELSE IF s.eri.destination_row # s.eri.current_row THEN RowHop(s, checks)
    ELSE Break(s)

\* row_first, one iteration of the loop
row_first_step(s, checks) ==
    IF s.current_idx \notin DOMAIN s.connections THEN [s EXCEPT !.status = "err"]
    ELSE IF s.eri.destination_row # s.eri.current_row THEN RowHop(s, checks)
    ELSE IF s.eri.destination_column # s.eri.current_column THEN ColumnHop(s, checks)
    ELSE Break(s)

\* column_first, one iteration of the loop
column_first_step(s, checks) ==
    IF s.current_idx \notin DOMAIN s.connections THEN [s EXCEPT !.status = "err"]
    ELSE IF s.eri.destination_column # s.eri.current_column THEN ColumnHop(s, checks)
    ELSE IF s.eri.destination_row # s.eri.current_row THEN RowHop(s, checks)
    ELSE Break(s)

\* The loop of row_first / column_first: iterate until break, Err or panic.
RECURSIVE walk_loop(_, _, _)
walk_loop(alg, s, checks) ==
    The({ IF n.status = "ok" THEN walk_loop(alg, n, checks) ELSE n :
          n \in {IF alg = "ColumnFirst" THEN column_first_step(s, checks)
                                        ELSE row_first_step(s, checks)} })

\* The accumulator of the edge loop after the walk w of an edge with routing
\* information eri: the walk is recorded in walks.
AfterWalk(acc, eri, w) ==
    [status |-> IF w.status = "break" THEN "ok" ELSE w.status,
     connections |-> w.connections,
     ret |-> w.ret,
     walks |-> Append(acc.walks,
                      [start |-> eri.start_id,
                       destination |-> eri.destination_id,
                       cost |-> eri.communication_cost,
                       start_row |-> eri.current_row,
                       start_column |-> eri.start_column,
                       destination_row |-> eri.destination_row,
                       destination_column |-> eri.destination_column,
                       end |-> w.current_idx,
                       path |-> w.path,
                       steps |-> w.steps])]

\* The for loop over the edges of the task graph.
\* acc: status, connections, ret, walks.
RECURSIVE route_edges(_, _, _, _, _, _, _, _)
route_edges(alg, list, map, edges, cols, rws, checks, acc) ==
    IF edges = <<>> THEN acc
    ELSE The({ IF eri.status # "ok" THEN [acc EXCEPT !.status = "err"]
               ELSE The({ IF next.status = "ok"
                          THEN route_edges(alg, list, map, Tail(edges), cols, rws, checks, next)
                          ELSE next :
                          next \in {AfterWalk(acc, eri.val,
                                        walk_loop(alg,
                                                  [status |-> "ok", eri |-> eri.val,
                                                   current_idx |-> eri.val.start_id,
                                                   connections |-> acc.connections,
                                                   ret |-> acc.ret, path |-> <<>>,
                                                   steps |-> <<>>],
                                                  checks))} }) :
               eri \in {calculate_edge_routing_information(list, map, Head(edges), cols, rws)} })

EmptyRet(conn) == [i \in DOMAIN conn |-> <<>>]

\* ManycoreSystem::row_first
row_first(list, map, edges, cols, rws, checks, conn) ==
    route_edges("RowFirst", list, map, edges, cols, rws, checks,
                [status |-> "ok", connections |-> conn, ret |-> EmptyRet(conn), walks |-> <<>>])

\* ManycoreSystem::column_first
column_first(list, map, edges, cols, rws, checks, conn) ==
    route_edges("ColumnFirst", list, map, edges, cols, rws, checks,
                [status |-> "ok", connections |-> conn, ret |-> EmptyRet(conn), walks |-> <<>>])

\* Variant of Neighbours::clear_link_costs that leaves the costs in place.
clear_link_costs_keep(neighbours) == neighbours

\* Neighbours::clear_link_costs
clear_link_costs(neighbours) ==
    [side \in Sides |->
        IF IsSome(neighbours[side])
        THEN Some([Unwrap(neighbours[side]) EXCEPT !.link_cost = 0])
        ELSE None]

\* ManycoreSystem::clear_links
clear_links(conn) == [i \in DOMAIN conn |-> clear_link_costs(conn[i])]

\* The outcome of task_graph_route(algorithm) on the connections conn.
task_graph_route_outcome(alg, list, map, edges, cols, rws, checks, conn) ==
    IF alg = "ColumnFirst"
    THEN column_first(list, map, edges, cols, rws, checks, clear_links(conn))
    ELSE row_first(list, map, edges, cols, rws, checks, clear_links(conn))

\* ManycoreSystem::task_graph_route
task_graph_route(alg) ==
    /\ result # "panic"
    /\ calls < MaxCalls
    /\ \E checks \in BOOLEAN :
       \E out \in {task_graph_route_outcome(alg, cores, task_core_map, task_graph,
                                            columns, rows, checks, connections)} :
          /\ connections' = out.connections
          /\ result' = out.status
          /\ report' = IF out.status = "ok" THEN out.ret ELSE EmptyRet(connections)
          /\ walks' = out.walks
    /\ algorithm' = Some(alg)
    /\ calls' = calls + 1
    /\ UNCHANGED <<rows, columns, cores, task_graph, task_core_map>>
    /\ UNCHANGED <<deser_vars, border_map_vars, cores_vars, borders_vars, loads_vars>>

-----------------------------------------------------------------------------
(* The routing specification *)

Init ==
    /\ \E d \in Dims : rows = d[1] /\ columns = d[2]
    /\ \E p \in Placements(rows, columns) : cores = CoreList(rows * columns, p[1], p[2])
    /\ task_core_map = parse_task_core_map(cores, rows * columns - 1)
    /\ connections = parse_connections(columns, rows * columns - 1)
    /\ task_graph \in EdgeSeqs
    /\ algorithm = None
    /\ result = "none"
    /\ report = EmptyRet(connections)
    /\ walks = <<>>
    /\ calls = 0
    /\ matrix_edge = <<>>
    /\ classified = {}
    /\ channels = <<>>
    /\ source_loads = <<>>
    /\ sources = <<>>
    /\ sinks = <<>>
    /\ core_border_map = <<>>
    /\ last_call = <<>>
    /\ reader = <<>>
    /\ workers = <<>>
    /\ semaphore = <<>>

Next == \E alg \in RoutingAlgorithms : task_graph_route(alg)

Spec == Init /\ [][Next]_vars

-----------------------------------------------------------------------------
(* Boundary classification: cores.rs *)

Directions == {"North", "South", "West", "East"}

\* impl From<&EdgePosition> for Vec<SinkSourceDirection>
SinkSourceDirections(position) ==
    CASE position = "Bottom" -> <<"South">>
      [] position = "BottomLeft" -> <<"South", "West">>
      [] position = "BottomRight" -> <<"South", "East">>
      [] position = "Left" -> <<"West">>
      [] position = "Right" -> <<"East">>
      [] position = "Top" -> <<"North">>
      [] position = "TopLeft" -> <<"North", "West">>
      [] position = "TopRight" -> <<"North", "East">>

\* impl From<&EdgePosition> for BTreeSet<&Directions>
DirectionSet(position) ==
    CASE position = "Bottom" -> {"South"}
      [] position = "BottomLeft" -> {"South", "West"}
      [] position = "BottomRight" -> {"South", "East"}
      [] position = "Left" -> {"West"}
      [] position = "Right" -> {"East"}
      [] position = "Top" -> {"North"}
      [] position = "TopLeft" -> {"North", "West"}
      [] position = "TopRight" -> {"North", "East"}

\* Variant of Core::calculate_edge whose bottom-left bound is rows * columns.
calculate_edge_bound(id, cols, rws) ==
    IF id % cols = 0
    THEN IF id = 0 THEN Some("TopLeft")
         ELSE IF id = rws * cols THEN Some("BottomLeft")
         ELSE Some("Left")
    ELSE IF (id + 1) % cols = 0
    THEN IF id = cols - 1 THEN Some("TopRight")
         ELSE IF id = (rws * cols) - 1 THEN Some("BottomRight")
         ELSE Some("Right")
    ELSE IF id < cols THEN Some("Top")
    ELSE IF id > rws * cols THEN Some("Bottom")
    ELSE None

\* Core::calculate_edge
calculate_edge(id, cols, rws) ==
    IF id % cols = 0
    THEN IF id = 0 THEN Some("TopLeft")
         ELSE IF id = (rws - 1) * cols THEN Some("BottomLeft")
         ELSE Some("Left")
    ELSE IF (id + 1) % cols = 0
    THEN IF id = cols - 1 THEN Some("TopRight")
         ELSE IF id = (rws * cols) - 1 THEN Some("BottomRight")
         ELSE Some("Right")
    ELSE IF id < cols THEN Some("Top")
    ELSE IF id > (rws - 1) * cols THEN Some("Bottom")
    ELSE None

\* Core::populate_matrix_edge on the core with this id
populate_matrix_edge(id) ==
    /\ id \notin classified
    /\ matrix_edge' = [matrix_edge EXCEPT ![id] = calculate_edge(id, columns, rows)]
    /\ classified' = classified \cup {id}
    /\ UNCHANGED <<deser_vars, border_map_vars, routing_vars, borders_vars, loads_vars>>

\* A mesh of up to MaxDim x MaxDim cores as deserialised: no core carries a
\* task, matrix_edge is skipped by the deserialiser and starts as None.
InitCores ==
    /\ rows \in 1..MaxDim
    /\ columns \in 1..MaxDim
    /\ cores = [i \in 0..(rows * columns - 1) |-> [id |-> i, allocated_task |-> None]]
    /\ task_core_map = <<>>
    /\ connections = <<>>
    /\ task_graph = <<>>
    /\ algorithm = None
    /\ result = "none"
    /\ report = <<>>
    /\ walks = <<>>
    /\ calls = 0
    /\ matrix_edge = [i \in 0..(rows * columns - 1) |-> None]
    /\ classified = {}
    /\ channels = <<>>
    /\ source_loads = <<>>
    /\ sources = <<>>
    /\ sinks = <<>>
    /\ core_border_map = <<>>
    /\ last_call = <<>>
    /\ reader = <<>>
    /\ workers = <<>>
    /\ semaphore = <<>>

NextCores == \E id \in DOMAIN matrix_edge : populate_matrix_edge(id)

SpecCores == InitCores /\ [][NextCores]_vars

-----------------------------------------------------------------------------
(* Load bookkeeping of the cores: cores.rs, channels.rs *)

\* Variant of Core::add_source_load whose addition wraps around.
add_source_load_wrapping(edge, loads, load, direction) ==
    IF edge = None THEN [status |-> "err", source_loads |-> loads]
    ELSE The({ [status |-> "ok",
                source_loads |->
                    Some(IF direction \in DOMAIN map
                         THEN [map EXCEPT ![direction] = (@ + load) % (U16Max + 1)]
                         ELSE [d \in {direction} |-> load] @@ map)] :
               map \in {IF IsSome(loads) THEN Unwrap(loads) ELSE <<>>} })

\* Variant of Core::add_source_load that replaces the load of the direction.
add_source_load_replace(edge, loads, load, direction) ==
    IF edge = None THEN [status |-> "err", source_loads |-> loads]
    ELSE [status |-> "ok",
          source_loads |-> Some([d \in {direction} |-> load]
                                @@ (IF IsSome(loads) THEN Unwrap(loads) ELSE <<>>))]

\* Core::add_source_load on a core with this matrix_edge and these source_loads.
add_source_load(edge, loads, load, direction) ==
    IF edge = None THEN [status |-> "err", source_loads |-> loads]
    ELSE The({ [status |-> "ok",
                source_loads |->
                    Some(IF direction \in DOMAIN map
                         THEN [map EXCEPT ![direction] = saturating_add(@, load)]
                         ELSE [d \in {direction} |-> load] @@ map)] :
               map \in {IF IsSome(loads) THEN Unwrap(loads) ELSE <<>>} })

\* Core::clear_source_loads
clear_source_loads(loads) == None

\* Variant of Channels::add_to_cost that sets the load to the cost.
Channels_add_to_cost_set(channel, cost, direction, checks) ==
    IF direction \notin DOMAIN channel THEN [status |-> "err", channel |-> channel]
    ELSE [status |-> "ok", channel |-> [channel EXCEPT ![direction] = cost]]

\* Channels::add_to_cost on the channel map of one core.
Channels_add_to_cost(channel, cost, direction, checks) ==
    IF direction \notin DOMAIN channel THEN [status |-> "err", channel |-> channel]
    ELSE The({ [status |-> sum.status, channel |-> [channel EXCEPT ![direction] = sum.val]] :
               sum \in {U16Add(channel[direction], cost, checks)} })

\* Variant of Channels::clear_loads that empties the map.
clear_loads_drop(channel) == <<>>

\* Channels::clear_loads
clear_loads(channel) == [d \in DOMAIN channel |-> 0]

-----------------------------------------------------------------------------
(* Routing through border endpoints: route(policy) for the dimension-order   *)
(* policies, over the channels and source loads of the cores.               *)

DimensionOrder == {"RowFirst", "ColumnFirst"}

\* Endpoint resolution of a task id: the task -> core index, then the sinks,
\* then the sources.
resolve_endpoint(map, snks, srcs, task_id) ==
    IF task_id \in DOMAIN map
    THEN [status |-> "ok", core |-> map[task_id], direction |-> None]
    ELSE IF task_id \in DOMAIN snks
    THEN [status |-> "ok", core |-> snks[task_id].core_id,
          direction |-> Some(snks[task_id].direction)]
    ELSE IF task_id \in DOMAIN srcs
    THEN [status |-> "ok", core |-> srcs[task_id].core_id,
          direction |-> Some(srcs[task_id].direction)]
    ELSE [status |-> "err", core |-> 0, direction |-> None]

\* Change of the core id by one hop in a direction.
IdDelta(direction, cols) ==
    CASE direction = "North" -> 0 - cols
      [] direction = "South" -> cols
      [] direction = "West" -> 0 - 1
      [] direction = "East" -> 1

\* The walk state s (current, channels, ret, path) after adding the cost to
\* the channel of the current core in a direction, with outcome added, and moving.
AfterChannelHop(s, direction, added, cols) ==
    [status |-> added.status,
     current |-> IF added.status = "ok" THEN s.current + IdDelta(direction, cols) ELSE s.current,
     channels |-> [s.channels EXCEPT ![s.current] = added.channel],
     ret |-> [s.ret EXCEPT ![s.current].outputs = @ \cup {direction}],
     path |-> Append(s.path, <<s.current, direction>>)]

\* One hop on the rows: North if the start row is greater than the destination row.
VerticalHop(s, e, cols, checks) ==
    The({ AfterChannelHop(s, direction,
                          Channels_add_to_cost(s.channels[s.current], e.cost, direction, checks),
                          cols) :
          direction \in {IF e.start \div cols > e.destination \div cols
                         THEN "North" ELSE "South"} })

\* One hop on the columns: West if the start column is greater than the destination column.
HorizontalHop(s, e, cols, checks) ==
    The({ AfterChannelHop(s, direction,
                          Channels_add_to_cost(s.channels[s.current], e.cost, direction, checks),
                          cols) :
          direction \in {IF e.start % cols > e.destination % cols
                         THEN "West" ELSE "East"} })

\* One iteration of the walk of edge e under a policy.
walk_step(policy, s, e, cols, checks) ==
    IF s.current \notin DOMAIN s.channels THEN [s EXCEPT !.status = "err"]
    ELSE IF policy = "RowFirst"
    THEN IF s.current \div cols # e.destination \div cols THEN VerticalHop(s, e, cols, checks)
         ELSE IF s.current % cols # e.destination % cols THEN HorizontalHop(s, e, cols, checks)
         ELSE Break(s)
    ELSE IF s.current % cols # e.destination % cols THEN HorizontalHop(s, e, cols, checks)
         ELSE IF s.current \div cols # e.destination \div cols THEN VerticalHop(s, e, cols, checks)
         ELSE Break(s)

\* The hop-by-hop walk from the start core to the destination core.
RECURSIVE walk(_, _, _, _, _)
walk(policy, s, e, cols, checks) ==
    The({ IF n.status = "ok" THEN walk(policy, n, e, cols, checks) ELSE n :
          n \in {walk_step(policy, s, e, cols, checks)} })

\* Entering the mesh: the cost of an edge with a source direction goes to the
\* source_loads of the start core, and the direction is recorded as used.
enter_mesh(acc, e, edges_of_cores) ==
    IF ~IsSome(e.source_direction) THEN acc
    ELSE IF e.start \notin DOMAIN acc.source_loads THEN [acc EXCEPT !.status = "err"]
    ELSE The({ [acc EXCEPT !.status = added.status,
                           !.source_loads[e.start] = added.source_loads,
                           !.ret[e.start].sources = @ \cup {Unwrap(e.source_direction)}] :
               added \in {add_source_load(edges_of_cores[e.start], acc.source_loads[e.start],
                                          e.cost, Unwrap(e.source_direction))} })

\* Leaving the mesh: the cost of an edge with a sink direction goes to the
\* channel of the destination core in that direction.
leave_mesh(w, e, checks) ==
    IF w.status # "break" \/ ~IsSome(e.sink_direction) THEN w
    ELSE The({ [w EXCEPT !.status = IF added.status = "ok" THEN "break" ELSE added.status,
                         !.channels[e.destination] = added.channel,
                         !.ret[e.destination].outputs = @ \cup {Unwrap(e.sink_direction)}] :
               added \in {Channels_add_to_cost(w.channels[e.destination], e.cost,
                                               Unwrap(e.sink_direction), checks)} })

\* The accumulator after the walk w of edge e (sink load included): the walk
\* is recorded in walks.
AfterBorderWalk(acc, e, w) ==
    [status |-> IF w.status = "break" THEN "ok" ELSE w.status,
     channels |-> w.channels,
     source_loads |-> acc.source_loads,
     ret |-> w.ret,
     walks |-> Append(acc.walks, [e EXCEPT !.end = w.current, !.path = w.path])]

\* The routing of one resolved edge e from the accumulator acc.
route_edge(policy, e, cols, edges_of_cores, checks, acc) ==
    The({ IF entered.status # "ok" THEN entered
          ELSE AfterBorderWalk(entered, e,
                   leave_mesh(walk(policy,
                                   [status |-> "ok", current |-> e.start,
                                    channels |-> entered.channels,
                                    ret |-> entered.ret, path |-> <<>>],
                                   e, cols, checks),
                              e, checks)) :
          entered \in {enter_mesh(acc, e, edges_of_cores)} })

\* An edge of the task graph with its endpoints from and to resolved.
ResolvedEdge(edge, from, to) ==
    [from |-> edge.from, to |-> edge.to, cost |-> edge.communication_cost,
     start |-> from.core, source_direction |-> from.direction,
     destination |-> to.core, sink_direction |-> to.direction,
     end |-> from.core, path |-> <<>>]

\* The loop over the edges of the task graph.
\* acc: status, channels, source_loads, ret, walks.
RECURSIVE route_task_graph(_, _, _, _, _, _, _, _, _)
route_task_graph(policy, map, snks, srcs, edges, cols, edges_of_cores, checks, acc) ==
    IF edges = <<>> THEN acc
    ELSE The({ IF from.status # "ok" \/ to.status # "ok" THEN [acc EXCEPT !.status = "err"]
               ELSE The({ IF next.status = "ok"
                          THEN route_task_graph(policy, map, snks, srcs, Tail(edges), cols,
                                                edges_of_cores, checks, next)
                          ELSE next :
                          next \in {route_edge(policy, ResolvedEdge(Head(edges), from, to),
                                               cols, edges_of_cores, checks, acc)} }) :
               from \in {resolve_endpoint(map, snks, srcs, Head(edges).from)},
               to \in {resolve_endpoint(map, snks, srcs, Head(edges).to)} })

EmptyReport(chans) == [i \in DOMAIN chans |-> [outputs |-> {}, sources |-> {}]]

\* The outcome of route(policy): all channel loads and source loads are
\* cleared, then the edges are routed one after the other.
route_outcome(policy, map, snks, srcs, edges, cols, edges_of_cores, checks, chans, loads) ==
    route_task_graph(policy, map, snks, srcs, edges, cols, edges_of_cores, checks,
                     [status |-> "ok",
                      channels |-> [i \in DOMAIN chans |-> clear_loads(chans[i])],
                      source_loads |-> [i \in DOMAIN loads |-> clear_source_loads(loads[i])],
                      ret |-> EmptyReport(chans),
                      walks |-> <<>>])

\* ManycoreSystem::route with a dimension-order policy
route(policy) ==
    /\ result # "panic"
    /\ calls < MaxCalls
    /\ \E checks \in BOOLEAN :
       \E out \in {route_outcome(policy, task_core_map, sinks, sources, task_graph, columns,
                                 matrix_edge, checks, channels, source_loads)} :
          /\ channels' = out.channels
          /\ source_loads' = out.source_loads
          /\ result' = out.status
          /\ report' = IF out.status = "ok" THEN out.ret ELSE EmptyReport(channels)
          /\ walks' = out.walks
    /\ algorithm' = Some(policy)
    /\ calls' = calls + 1
    /\ UNCHANGED <<rows, columns, cores, task_graph, task_core_map, connections>>
    /\ UNCHANGED <<deser_vars, border_map_vars, cores_vars, sources, sinks, loads_vars>>

\* Task ids of the border endpoints and the edges a task graph with border
\* endpoints is drawn from: tasks 0 and 1 are Sources, task 5 is a Sink,
\* tasks 2 and 3 are allocated on cores, task 9 is nowhere.
BorderEdgeSet ==
    { [from |-> 0, to |-> 2, communication_cost |-> 30],
      [from |-> 1, to |-> 2, communication_cost |-> 20],
      [from |-> 2, to |-> 3, communication_cost |-> 50],
      [from |-> 3, to |-> 5, communication_cost |-> 50],
      [from |-> 2, to |-> 9, communication_cost |-> 50] }

BorderEdgeSeqs == UNION {[1..n -> BorderEdgeSet] : n \in 0..MaxEdges}

BorderDims == {<<2, 3>>, <<3, 3>>}

\* Cores <<s, d>> holding tasks 2 and 3: those of the test system on the 3x3
\* mesh, a choice of pairs on the 2x3 mesh.
BorderPlacements(r, c) ==
    IF <<r, c>> = <<3, 3>> THEN {<<7, 1>>}
    ELSE {<<r * c - 1, 1>>, <<c + 1, 0>>, <<0, r * c - 1>>, <<c, c - 1>>}

\* The Sources of the test system: task 0 on core 1 going North, task 1 on core 0 going West.
TestSources ==
    [t \in {0, 1} |-> IF t = 0 THEN [core_id |-> 1, direction |-> "North", task_id |-> 0]
                               ELSE [core_id |-> 0, direction |-> "West", task_id |-> 1]]

\* The Sink of the test system: task 5 on the bottom-left core going West.
TestSinks(r, c) == [t \in {5} |-> [core_id |-> c * (r - 1), direction |-> "West", task_id |-> 5]]

\* The channels of core i: all four when border_channels, else only those
\* that lead to a core of the mesh.
InitChannels(edge, border_channels) ==
    [d \in (IF border_channels \/ ~IsSome(edge) THEN Directions
            ELSE Directions \ DirectionSet(Unwrap(edge))) |-> 0]

\* The system after ingestion: boundary classification and task -> core index
\* populated, all loads zero, no source loads.
InitBorders ==
    /\ \E d \in BorderDims : rows = d[1] /\ columns = d[2]
    /\ \E p \in BorderPlacements(rows, columns) : cores = CoreList(rows * columns, p[1], p[2])
    /\ task_core_map = parse_task_core_map(cores, rows * columns - 1)
    /\ connections = <<>>
    /\ task_graph \in BorderEdgeSeqs
    /\ algorithm = None
    /\ result = "none"
    /\ matrix_edge = [i \in 0..(rows * columns - 1) |-> calculate_edge(i, columns, rows)]
    /\ classified = 0..(rows * columns - 1)
    /\ \E border_channels \in BOOLEAN :
          channels = [i \in 0..(rows * columns - 1) |-> InitChannels(matrix_edge[i], border_channels)]
    /\ source_loads = [i \in 0..(rows * columns - 1) |-> None]
    /\ sources = TestSources
    /\ sinks = TestSinks(rows, columns)
    /\ core_border_map = <<>>
    /\ last_call = <<>>
    /\ reader = <<>>
    /\ workers = <<>>
    /\ semaphore = <<>>
    /\ report = EmptyReport(channels)
    /\ walks = <<>>
    /\ calls = 0

NextBorders == \E policy \in DimensionOrder : route(policy)

SpecBorders == InitBorders /\ [][NextBorders]_vars


-----------------------------------------------------------------------------
(* The load mutators of a core called one at a time: Channels::add_to_cost,  *)
(* Channels::clear_loads, Core::add_source_load, Core::clear_source_loads.  *)

\* Costs and loads handed to the mutators: small, and large enough for two
\* additions to pass the u16 range.
LoadCosts == {1, 40000, U16Max}

\* The cores the mutators are called on: the top-left corner, whose North and
\* West channels are absent, and the interior core of the 3x3 mesh.
TargetCores == {0, 4}

\* The arguments of a call and the fields of the core before it.
Call(op, i, direction, cost) ==
    [op |-> op, core |-> i, direction |-> direction, cost |-> cost,
     channel_before |-> channels[i], loads_before |-> source_loads[i]]

\* core i: self.channels.add_to_cost(cost, direction)
AddToCost(i, cost, direction) ==
    /\ result # "panic"
    /\ calls < MaxOps
    /\ \E checks \in BOOLEAN :
       \E added \in {Channels_add_to_cost(channels[i], cost, direction, checks)} :
          /\ channels' = [channels EXCEPT ![i] = added.channel]
          /\ result' = added.status
    /\ last_call' = Call("add_to_cost", i, direction, cost)
    /\ calls' = calls + 1
    /\ UNCHANGED <<rows, columns, cores, task_graph, task_core_map, connections,
                   algorithm, report, walks>>
    /\ UNCHANGED <<deser_vars, border_map_vars, cores_vars, source_loads, sources, sinks>>

\* core i: self.channels.clear_loads()
ClearLoads(i) ==
    /\ result # "panic"
    /\ calls < MaxOps
    /\ channels' = [channels EXCEPT ![i] = clear_loads(@)]
    /\ result' = "ok"
    /\ last_call' = Call("clear_loads", i, "North", 0)
    /\ calls' = calls + 1
    /\ UNCHANGED <<rows, columns, cores, task_graph, task_core_map, connections,
                   algorithm, report, walks>>
    /\ UNCHANGED <<deser_vars, border_map_vars, cores_vars, source_loads, sources, sinks>>

\* core i: self.add_source_load(load, direction)
AddSourceLoad(i, load, direction) ==
    /\ result # "panic"
    /\ calls < MaxOps
    /\ \E added \in {add_source_load(matrix_edge[i], source_loads[i], load, direction)} :
          /\ source_loads' = [source_loads EXCEPT ![i] = added.source_loads]
          /\ result' = added.status
    /\ last_call' = Call("add_source_load", i, direction, load)
    /\ calls' = calls + 1
    /\ UNCHANGED <<rows, columns, cores, task_graph, task_core_map, connections,
                   algorithm, report, walks>>
    /\ UNCHANGED <<deser_vars, border_map_vars, cores_vars, channels, sources, sinks>>

\* core i: self.clear_source_loads()
ClearSourceLoads(i) ==
    /\ result # "panic"
    /\ calls < MaxOps
    /\ source_loads' = [source_loads EXCEPT ![i] = clear_source_loads(@)]
    /\ result' = "ok"
    /\ last_call' = Call("clear_source_loads", i, "North", 0)
    /\ calls' = calls + 1
    /\ UNCHANGED <<rows, columns, cores, task_graph, task_core_map, connections,
                   algorithm, report, walks>>
    /\ UNCHANGED <<deser_vars, border_map_vars, cores_vars, channels, sources, sinks>>

\* A 3x3 mesh after ingestion whose cores have channels only towards the
\* cores of the mesh; all loads zero, no source loads.
InitLoads ==
    /\ rows = 3
    /\ columns = 3
    /\ cores = [i \in 0..8 |-> [id |-> i, allocated_task |-> None]]
    /\ task_core_map = <<>>
    /\ connections = <<>>
    /\ task_graph = <<>>
    /\ algorithm = None
    /\ result = "none"
    /\ report = <<>>
    /\ walks = <<>>
    /\ calls = 0
    /\ matrix_edge = [i \in 0..8 |-> calculate_edge(i, columns, rows)]
    /\ classified = 0..8
    /\ channels = [i \in 0..8 |-> InitChannels(matrix_edge[i], FALSE)]
    /\ source_loads = [i \in 0..8 |-> None]
    /\ sources = <<>>
    /\ sinks = <<>>
    /\ core_border_map = <<>>
    /\ last_call = <<>>
    /\ reader = <<>>
    /\ workers = <<>>
    /\ semaphore = <<>>

NextLoads ==
    \E i \in TargetCores :
        \/ \E cost \in LoadCosts : \E direction \in Directions : AddToCost(i, cost, direction)
        \/ \E load \in LoadCosts : \E direction \in Directions : AddSourceLoad(i, load, direction)
        \/ ClearLoads(i)
        \/ ClearSourceLoads(i)

SpecLoads == InitLoads /\ [][NextLoads]_vars

-----------------------------------------------------------------------------
(* Ingestion: ManycoreSystem::parse_file on a deserialised topology.  The    *)
(* core list is a function on 0..len-1 in input order; sources and sinks    *)
(* are keyed by core id as the deserialiser leaves them.                    *)

\* A deserialised list given by the ids of its cores in input order: the
\* first core carries task 2, the second task 3.
InputCores(ids) ==
    [i \in 0..(Len(ids) - 1) |->
        [id |-> ids[i + 1],
         allocated_task |-> IF i = 0 THEN Some(2) ELSE IF i = 1 THEN Some(3) ELSE None,
         router_id |-> 0]]

IdSeqs == UNION {[1..n -> 0..(MaxCores - 1)] : n \in 0..MaxCores}

\* Border endpoints of the input: none, one on the first core going West, one
\* on core 1 going South, one on core 1 going North.
InputBorders ==
    { <<>>,
      [c \in {0} |-> [core_id |-> 0, direction |-> "West"]],
      [c \in {1} |-> [core_id |-> 1, direction |-> "South"]],
      [c \in {1} |-> [core_id |-> 1, direction |-> "North"]] }

\* The list with core c put after the cores whose id is not greater.
InsertById(sorted, c) ==
    The({ SubSeq(sorted, 1, k) \o <<c>> \o SubSeq(sorted, k + 1, Len(sorted)) :
          k \in {Cardinality({j \in 1..Len(sorted) : sorted[j].id <= c.id})} })

\* list.sort_by(|me, other| me.id().cmp(&other.id())) on a sequence: a stable sort.
RECURSIVE sort_by_id(_)
sort_by_id(seq) ==
    IF seq = <<>> THEN <<>>
    ELSE InsertById(sort_by_id(SubSeq(seq, 1, Len(seq) - 1)), seq[Len(seq)])

\* The core list sorted by id, each router given the index of its core as u8.
SortedCores(list) ==
    The({ [i \in DOMAIN list |-> [sorted[i + 1] EXCEPT !.router_id = i % (U8Max + 1)]] :
          sorted \in {sort_by_id([k \in 1..Cardinality(DOMAIN list) |-> list[k - 1]])} })

\* ManycoreSystem::parse_file after a successful deserialisation.  With an
\* empty list `len() - 1` underflows: a build with overflow checks panics
\* there, one without panics on list()[0]; with columns = 0 the remainder
\* `right % usize_columns` panics.
parse_file_outcome(list, cols) ==
    IF DOMAIN list = {} \/ cols = 0
    THEN [status |-> "panic", cores |-> list, connections |-> <<>>, task_core_map |-> <<>>]
    ELSE The({ [status |-> "ok",
                cores |-> SortedCores(list),
                connections |-> parse_connections(cols, last),
                task_core_map |-> parse_task_core_map(SortedCores(list), last)] :
               last \in {Cardinality(DOMAIN list) - 1} })

\* ManycoreSystem::parse_file: an unreadable or malformed file is an Err of
\* the reader or the deserialiser.
parse_file ==
    /\ result = "none"
    /\ last_call' = [last_call EXCEPT !.op = "parse_file"]
    /\ IF ~last_call.well_formed
       THEN /\ result' = "err"
            /\ UNCHANGED <<cores, connections, task_core_map>>
       ELSE \E out \in {parse_file_outcome(cores, columns)} :
               /\ result' = out.status
               /\ cores' = out.cores
               /\ connections' = out.connections
               /\ task_core_map' = out.task_core_map
    /\ calls' = calls + 1
    /\ UNCHANGED <<rows, columns, task_graph, algorithm, report, walks>>
    /\ UNCHANGED <<deser_vars, border_map_vars, cores_vars, channels, source_loads, sources, sinks>>

\* Any input file: its rows and columns attributes, its cores in any order
\* with any ids, its border endpoints; last_call keeps the input.
InitIngest ==
    /\ rows \in 0..MaxIngestDim
    /\ columns \in 0..MaxIngestDim
    /\ \E ids \in IdSeqs : cores = InputCores(ids)
    /\ sources \in InputBorders
    /\ sinks = <<>>
    /\ core_border_map = <<>>
    /\ \E well_formed \in BOOLEAN :
          last_call = [op |-> "input", well_formed |-> well_formed, cores |-> cores]
    /\ reader = <<>>
    /\ workers = <<>>
    /\ semaphore = <<>>
    /\ task_core_map = <<>>
    /\ connections = <<>>
    /\ task_graph = <<>>
    /\ algorithm = None
    /\ result = "none"
    /\ report = <<>>
    /\ walks = <<>>
    /\ calls = 0
    /\ matrix_edge = <<>>
    /\ classified = {}
    /\ channels = <<>>
    /\ source_loads = <<>>

NextIngest == parse_file

SpecIngest == InitIngest /\ [][NextIngest]_vars

-----------------------------------------------------------------------------
(* Observed routing: ManycoreSystem::observed_route over the FIFOs of the    *)
(* cores.  Core.fifos is an Option of a map FIFODirection -> packets.       *)

\* FIFODirection in the order of the enum, the iteration order of the BTreeMap.
FIFOOrder ==
    <<"NorthInput", "NorthOutput", "SouthInput", "SouthOutput", "EastInput",
      "EastOutput", "WestInput", "WestOutput", "LocalInput", "LocalOutput">>

OutputDirections == {"NorthOutput", "EastOutput", "SouthOutput", "WestOutput"}

\* The neighbour updated for an output direction.
OutputSide(direction) ==
    CASE direction = "NorthOutput" -> "top"
      [] direction = "EastOutput" -> "right"
      [] direction = "SouthOutput" -> "bottom"
      [] direction = "WestOutput" -> "left"

\* packets as u8
as_u8(packets) == packets % (U8Max + 1)

\* observed_route, the body of the loop over the FIFOs for one FIFO of core i.
observed_fifo(acc, i, direction, packets, checks) ==
    IF packets = 0 \/ direction \notin OutputDirections THEN acc
    ELSE The({ [status |-> upd.status,
                connections |-> [acc.connections EXCEPT ![i] = upd.neighbours],
                ret |-> [acc.ret EXCEPT ![i] = Append(@, direction)]] :
               upd \in {update_neighbour(acc.connections[i], as_u8(packets),
                                         OutputSide(direction), checks)} })

\* observed_route, the loop over the FIFOs of core i from the k-th direction on.
RECURSIVE observed_fifos(_, _, _, _, _)
observed_fifos(fifo, i, k, checks, acc) ==
    IF k > Len(FIFOOrder) \/ acc.status # "ok" THEN acc
    ELSE observed_fifos(fifo, i, k + 1, checks,
                        IF FIFOOrder[k] \in DOMAIN fifo
                        THEN observed_fifo(acc, i, FIFOOrder[k], fifo[FIFOOrder[k]], checks)
                        ELSE acc)

\* observed_route, the loop over the cores from core i on.
RECURSIVE observed_cores(_, _, _, _)
observed_cores(list, i, checks, acc) ==
    IF i \notin DOMAIN list \/ acc.status # "ok" THEN acc
    ELSE observed_cores(list, i + 1, checks,
                        IF IsSome(list[i].fifos)
                        THEN observed_fifos(Unwrap(list[i].fifos), i, 1, checks, acc)
                        ELSE acc)

\* The outcome of observed_route on the connections conn.
observed_route_outcome(list, checks, conn) ==
    observed_cores(list, 0, checks,
                   [status |-> "ok", connections |-> clear_links(conn), ret |-> EmptyRet(conn)])

\* ManycoreSystem::observed_route
observed_route ==
    /\ result # "panic"
    /\ calls < MaxCalls
    /\ \E checks \in BOOLEAN :
       \E out \in {observed_route_outcome(cores, checks, connections)} :
          /\ connections' = out.connections
          /\ result' = out.status
          /\ report' = IF out.status = "ok" THEN out.ret ELSE EmptyRet(connections)
    /\ algorithm' = Some("Observed")
    /\ calls' = calls + 1
    /\ UNCHANGED <<rows, columns, cores, task_graph, task_core_map, walks>>
    /\ UNCHANGED <<deser_vars, border_map_vars, cores_vars, borders_vars, loads_vars>>

\* The FIFOs a core of the input may have: none, or packets transmitted on
\* some directions (0, below 256, 256 and above).
FifoChoices ==
    { None,
      Some([d \in {"EastOutput", "SouthOutput", "LocalOutput"} |->
               IF d = "EastOutput" THEN 5 ELSE IF d = "SouthOutput" THEN 0 ELSE 7]),
      Some([d \in {"WestOutput", "EastInput"} |-> IF d = "WestOutput" THEN 300 ELSE 9]),
      Some([d \in {"NorthOutput"} |-> 256]) }

\* The system after parse_file on a 2x2 mesh without tasks.
InitObserved ==
    /\ rows = 2
    /\ columns = 2
    /\ \E f \in [0..3 -> FifoChoices] :
          cores = [i \in 0..3 |-> [id |-> i, allocated_task |-> None, fifos |-> f[i]]]
    /\ task_core_map = <<>>
    /\ connections = parse_connections(columns, 3)
    /\ task_graph = <<>>
    /\ algorithm = None
    /\ result = "none"
    /\ report = EmptyRet(connections)
    /\ walks = <<>>
    /\ calls = 0
    /\ matrix_edge = <<>>
    /\ classified = {}
    /\ channels = <<>>
    /\ source_loads = <<>>
    /\ sources = <<>>
    /\ sinks = <<>>
    /\ core_border_map = <<>>
    /\ last_call = <<>>
    /\ reader = <<>>
    /\ workers = <<>>
    /\ semaphore = <<>>

NextObserved == observed_route

SpecObserved == InitObserved /\ [][NextObserved]_vars

-----------------------------------------------------------------------------
(* Threaded ingestion: ManycoreSystem::threaded_deserialise.  The main       *)
(* thread reads the events of the file inside thread::scope and spawns one  *)
(* thread per CORES_PER_THREAD cores read; the scope joins them.            *)

CORES_PER_THREAD == 100

\* The inputs: the number of <Core> elements of the file, whether a <Core>
\* has a child element with an end tag, whether the file opens, whether it
\* holds a place where the XML reader fails.
InputCoreCounts == {0, 1, 100, 199, 200, 201}
InputFiles ==
    [core_count : InputCoreCounts, nested : BOOLEAN, openable : BOOLEAN, corrupt : BOOLEAN]

\* thread::available_parallelism(), 1 when it is unknown
Parallelism == {1, 2}

\* What no step of threaded_deserialise touches.
DeserUnchanged ==
    UNCHANGED <<rows, columns, cores, task_graph, task_core_map, connections, algorithm,
                report, walks, calls, cores_vars, borders_vars, loads_vars, border_map_vars>>

\* File::open(path)?
OpenFile ==
    /\ reader.pc = "open"
    /\ IF reader.file.openable
       THEN /\ reader' = [reader EXCEPT !.pc = "outer"]
            /\ UNCHANGED result
       ELSE /\ reader' = [reader EXCEPT !.pc = "returned"]
            /\ result' = "err"
    /\ UNCHANGED <<workers, semaphore>>
    /\ DeserUnchanged

\* read_event_into(..).map_err(..)? fails: the closure of the scope returns Err.
ReadError ==
    /\ reader.pc \in {"outer", "inner"}
    /\ reader.file.corrupt
    /\ reader' = [reader EXCEPT !.pc = "join", !.scope_result = "err"]
    /\ UNCHANGED <<workers, semaphore, result>>
    /\ DeserUnchanged

\* One iteration of the outer loop: an element before <Cores> is written out,
\* <Cores> enters the inner loop, Eof breaks.
ReadOuter ==
    /\ reader.pc = "outer"
    /\ reader' =
          CASE reader.phase = "before" -> [reader EXCEPT !.phase = "cores"]
            [] reader.phase = "cores" -> [reader EXCEPT !.pc = "inner"]
            [] reader.phase = "after" -> [reader EXCEPT !.phase = "eof"]
            [] reader.phase = "eof" -> [reader EXCEPT !.pc = "join", !.scope_result = "ok"]
    /\ UNCHANGED <<workers, semaphore, result>>
    /\ DeserUnchanged

\* One iteration of the inner loop on an end tag: </Core> counts a core and
\* spawns a thread at CORES_PER_THREAD, any other end tag leaves the loop.
\* chunks keeps the positions in the input of the first and the last core
\* of the buffer each spawned thread was given.
ReadInner ==
    /\ reader.pc = "inner"
    /\ IF reader.cores_left = 0 \/ reader.file.nested
       THEN /\ reader' = [reader EXCEPT !.pc = "outer", !.phase = "after"]
            /\ UNCHANGED workers
       ELSE IF reader.count + 1 = CORES_PER_THREAD
       THEN /\ reader' = [reader EXCEPT
                              !.cores_left = @ - 1, !.count = 0,
                              !.chunks = Append(@, [first |-> reader.file.core_count - reader.cores_left
                                                                - reader.count + 1,
                                                    last |-> reader.file.core_count - reader.cores_left
                                                               + 1])]
            /\ workers' = Append(workers, "spawned")
       ELSE /\ reader' = [reader EXCEPT !.cores_left = @ - 1, !.count = @ + 1]
            /\ UNCHANGED workers
    /\ UNCHANGED <<semaphore, result>>
    /\ DeserUnchanged

\* The end of thread::scope waits for every spawned thread; its result is
\* dropped (let _ =) and the function returns Ok(()).
JoinAndReturn ==
    /\ reader.pc = "join"
    /\ \A w \in 1..Len(workers) : workers[w] = "done"
    /\ reader' = [reader EXCEPT !.pc = "returned"]
    /\ result' = "ok"
    /\ UNCHANGED <<workers, semaphore>>
    /\ DeserUnchanged

\* Thread w: sem_tokens_mutex.lock(), also on return from sem_control.wait.
WorkerLock(w) ==
    /\ workers[w] \in {"spawned", "waiting"}
    /\ semaphore.holder = None
    /\ semaphore' = [semaphore EXCEPT !.holder = Some(w)]
    /\ workers' = [workers EXCEPT ![w] = "locked"]
    /\ UNCHANGED <<reader, result>>
    /\ DeserUnchanged

\* Variant of the gate in which thread w releases the mutex once past it.
WorkerGate_release(w) ==
    /\ workers[w] = "locked"
    /\ semaphore' = [semaphore EXCEPT !.holder = None]
    /\ workers' = [workers EXCEPT ![w] =
                       IF semaphore.tokens = reader.max_threads THEN "waiting" ELSE "running"]
    /\ UNCHANGED <<reader, result>>
    /\ DeserUnchanged

\* Thread w: while *sem_tokens == max_threads { wait }: waiting gives up the
\* mutex, passing keeps the guard.
WorkerGate(w) ==
    /\ workers[w] = "locked"
    /\ IF semaphore.tokens = reader.max_threads
       THEN /\ semaphore' = [semaphore EXCEPT !.holder = None]
            /\ workers' = [workers EXCEPT ![w] = "waiting"]
       ELSE /\ workers' = [workers EXCEPT ![w] = "running"]
            /\ UNCHANGED semaphore
    /\ UNCHANGED <<reader, result>>
    /\ DeserUnchanged

\* Thread w: the end of the closure drops the guard.
WorkerFinish(w) ==
    /\ workers[w] = "running"
    /\ semaphore' = [semaphore EXCEPT !.holder = None]
    /\ workers' = [workers EXCEPT ![w] = "done"]
    /\ UNCHANGED <<reader, result>>
    /\ DeserUnchanged

InitDeser ==
    /\ \E file \in InputFiles : \E max_threads \in Parallelism :
          reader = [pc |-> "open", file |-> file, max_threads |-> max_threads,
                    phase |-> "before", cores_left |-> file.core_count, count |-> 0,
                    scope_result |-> "none", chunks |-> <<>>]
    /\ workers = <<>>
    /\ semaphore = [tokens |-> 0, holder |-> None]
    /\ result = "none"
    /\ rows = 0
    /\ columns = 0
    /\ cores = <<>>
    /\ task_core_map = <<>>
    /\ connections = <<>>
    /\ task_graph = <<>>
    /\ algorithm = None
    /\ report = <<>>
    /\ walks = <<>>
    /\ calls = 0
    /\ matrix_edge = <<>>
    /\ classified = {}
    /\ channels = <<>>
    /\ source_loads = <<>>
    /\ sources = <<>>
    /\ sinks = <<>>
    /\ core_border_map = <<>>
    /\ last_call = <<>>

NextDeser ==
    \/ OpenFile
    \/ ReadError
    \/ ReadOuter
    \/ ReadInner
    \/ JoinAndReturn
    \/ \E w \in 1..Len(workers) : WorkerLock(w)
    \/ \E w \in 1..Len(workers) : WorkerGate(w)
    \/ \E w \in 1..Len(workers) : WorkerFinish(w)

SpecDeser == InitDeser /\ [][NextDeser]_vars

-----------------------------------------------------------------------------
(* Direction strings and element information: channels.rs, info.rs.  A       *)
(* group id is given split at "_": the characters of its first part and the *)
(* remaining parts as whole strings.                                        *)

NORTH == "North"
SOUTH == "South"
WEST == "West"
EAST == "East"

\* impl From<&Directions> for String
String_from(direction) ==
    CASE direction = "North" -> NORTH
      [] direction = "South" -> SOUTH
      [] direction = "West" -> WEST
      [] direction = "East" -> EAST

\* The conversion, were it to ignore the case of the first letter.
Directions_try_from_any_case(value) ==
    IF value \in {NORTH, "north"} THEN [status |-> "ok", kind |-> "none", val |-> "North"]
    ELSE IF value = SOUTH THEN [status |-> "ok", kind |-> "none", val |-> "South"]
    ELSE IF value = WEST THEN [status |-> "ok", kind |-> "none", val |-> "West"]
    ELSE IF value = EAST THEN [status |-> "ok", kind |-> "none", val |-> "East"]
    ELSE [status |-> "err", kind |-> "GenerationError", val |-> "none"]

\* impl TryFrom<&str> for Directions
Directions_try_from(value) ==
    IF value = NORTH THEN [status |-> "ok", kind |-> "none", val |-> "North"]
    ELSE IF value = SOUTH THEN [status |-> "ok", kind |-> "none", val |-> "South"]
    ELSE IF value = WEST THEN [status |-> "ok", kind |-> "none", val |-> "West"]
    ELSE IF value = EAST THEN [status |-> "ok", kind |-> "none", val |-> "East"]
    ELSE [status |-> "err", kind |-> "GenerationError", val |-> "none"]

InfoError == [status |-> "err", kind |-> "InfoError", val |-> "none"]

Digits == <<"0", "1", "2", "3", "4", "5", "6", "7", "8", "9">>

\* char::to_digit(10)
to_digit(char) ==
    IF \E n \in 1..Len(Digits) : Digits[n] = char
    THEN Some((CHOOSE n \in 1..Len(Digits) : Digits[n] = char) - 1)
    ELSE None

\* The information of core list[index] for a variant character; rest holds
\* the parts of the group id after the first "_".
element_info(list, chans, index, variant_char, rest) ==
    IF variant_char = "r" THEN [status |-> "ok", kind |-> "none", val |-> list[index].router_attributes]
    ELSE IF variant_char = "c"
    THEN [status |-> "ok", kind |-> "none",
          val |-> Some([element |-> "core", id |-> list[index].id,
                        allocated_task |-> list[index].allocated_task])]
    ELSE IF variant_char = "l"
    THEN IF rest = <<>> THEN InfoError
         ELSE The({ IF direction.status # "ok" THEN direction
                    ELSE IF direction.val \notin DOMAIN chans[index] THEN InfoError
                    ELSE [status |-> "ok", kind |-> "none",
                          val |-> chans[index][direction.val].other_attributes] :
                    direction \in {Directions_try_from(rest[1])} })
    ELSE InfoError

\* ManycoreSystem::get_core_router_specific_info
get_core_router_specific_info(list, chans, group_id) ==
    IF group_id.head = <<>> /\ group_id.rest = <<>> THEN InfoError
    ELSE IF Len(group_id.head) < 2 THEN InfoError
    ELSE The({ IF ~IsSome(digit) THEN InfoError
               ELSE IF Unwrap(digit) \notin DOMAIN list THEN InfoError
               ELSE element_info(list, chans, Unwrap(digit), group_id.head[1], group_id.rest) :
               digit \in {to_digit(group_id.head[2])} })

RECURSIVE parse_digits(_, _)
\* The value of a run of decimal digits after the digits read so far, None
\* at the first character that is no digit.
parse_digits(chars, value) ==
    IF chars = <<>> THEN Some(value)
    ELSE IF ~IsSome(to_digit(Head(chars))) THEN None
    ELSE parse_digits(Tail(chars), 10 * value + Unwrap(to_digit(Head(chars))))

\* group_id.parse::<usize>() on what follows the first character: no number
\* for an empty string or one holding "_" or a letter.
parse_usize(group_id) ==
    IF group_id.rest # <<>> \/ Len(group_id.head) < 2 THEN None
    ELSE parse_digits(Tail(group_id.head), 0)

\* ManycoreSystem::get_core_router_specific_info of lib.rs, which reads the
\* whole of the group id after its first character as the index.
lib_get_core_router_specific_info(list, group_id) ==
    IF group_id.head = <<>> /\ group_id.rest = <<>> THEN InfoError
    ELSE The({ IF ~IsSome(index) THEN InfoError
               ELSE IF Unwrap(index) \notin DOMAIN list THEN InfoError
               ELSE IF group_id.head[1] \in {"r", "c"}
                    THEN element_info(list, <<>>, Unwrap(index), group_id.head[1], <<>>)
                    ELSE InfoError :
               index \in {parse_usize(group_id)} })

\* Characters and further parts the group ids of the model are made of.
GroupChars == {"r", "c", "l", "x", "0", "1", "2"}
GroupRests ==
    {<<>>, <<"North">>, <<"South">>, <<"West">>, <<"East">>, <<"north">>, <<"Up">>, <<"">>}
GroupIds ==
    [head : UNION {[1..n -> GroupChars] : n \in 0..MaxGroupLen}, rest : GroupRests]

\* What the info calls leave alone.
InfoUnchanged ==
    UNCHANGED <<rows, columns, cores, task_graph, task_core_map, connections, algorithm,
                walks, calls, cores_vars, borders_vars, deser_vars, border_map_vars>>

\* self.get_core_router_specific_info(group_id) for the group id of last_call
GetInfo ==
    /\ last_call.op = "input"
    /\ \E out \in {get_core_router_specific_info(cores, channels, last_call.group_id)} :
          /\ result' = out.status
          /\ report' = out
    /\ last_call' = [last_call EXCEPT !.op = "get_info"]
    /\ InfoUnchanged

\* self.get_core_router_specific_info(group_id) as lib.rs defines it
GetInfoLib ==
    /\ last_call.op = "input"
    /\ \E out \in {lib_get_core_router_specific_info(cores, last_call.group_id)} :
          /\ result' = out.status
          /\ report' = out
    /\ last_call' = [last_call EXCEPT !.op = "get_info_lib"]
    /\ InfoUnchanged

\* Directions::try_from on the part of the group id after "_", and the
\* direction turned back into a String.
ConvertDirection ==
    /\ last_call.op = "input"
    /\ last_call.group_id.rest # <<>>
    /\ \E out \in {Directions_try_from(last_call.group_id.rest[1])} :
          /\ result' = out.status
          /\ report' = [out EXCEPT !.val = IF out.status = "ok" THEN String_from(out.val)
                                                               ELSE "none"]
    /\ last_call' = [last_call EXCEPT !.op = "try_from"]
    /\ InfoUnchanged

\* A 3x4 mesh after ingestion, its cores with channels towards the cores of
\* the mesh only, and a group id.
InitInfo ==
    /\ rows = 3
    /\ columns = 4
    /\ cores = [i \in 0..11 |->
                   [id |-> i,
                    allocated_task |-> IF i = 1 THEN Some(3) ELSE None,
                    router_attributes |-> IF i % 2 = 0 THEN Some([element |-> "router", core |-> i])
                                                       ELSE None]]
    /\ channels = [i \in 0..11 |->
                      [direction \in DOMAIN InitChannels(calculate_edge(i, columns, rows), FALSE) |->
                          [current_load |-> 0,
                           other_attributes |-> IF direction = "North" THEN None
                                                ELSE Some([element |-> "channel", core |-> i,
                                                           direction |-> direction])]]]
    /\ \E group_id \in GroupIds : last_call = [op |-> "input", group_id |-> group_id]
    /\ task_core_map = <<>>
    /\ connections = <<>>
    /\ task_graph = <<>>
    /\ algorithm = None
    /\ result = "none"
    /\ report = <<>>
    /\ walks = <<>>
    /\ calls = 0
    /\ matrix_edge = <<>>
    /\ classified = {}
    /\ source_loads = <<>>
    /\ sources = <<>>
    /\ sinks = <<>>
    /\ core_border_map = <<>>
    /\ reader = <<>>
    /\ workers = <<>>
    /\ semaphore = <<>>

NextInfo == GetInfo \/ GetInfoLib \/ ConvertDirection

SpecInfo == InitInfo /\ [][NextInfo]_vars

-----------------------------------------------------------------------------
(* Geometry of the mesh: ids are row-major, id = row * columns + col *)

Row(id) == id \div columns
Col(id) == id % columns
Abs(x) == IF x < 0 THEN -x ELSE x
Manhattan(a, b) == Abs(Row(a) - Row(b)) + Abs(Col(a) - Col(b))

LinkCost(i, side) ==
    IF IsSome(connections[i][side]) THEN Unwrap(connections[i][side]).link_cost ELSE 0

\* Number of hops <<i, side>> in a path.
Occurrences(path, i, side) == Cardinality({h \in 1..Len(path) : path[h] = <<i, side>>})

\* Load that the hops recorded in walks put on the link of core i on a side.
RECURSIVE PathLoad(_, _, _)
PathLoad(ws, i, side) ==
    IF ws = <<>> THEN 0
    ELSE Head(ws).cost * Occurrences(Head(ws).path, i, side) + PathLoad(Tail(ws), i, side)

FreshConnections == parse_connections(columns, rows * columns - 1)

Malformed(edge) == edge.from \notin DOMAIN task_core_map \/ edge.to \notin DOMAIN task_core_map

-----------------------------------------------------------------------------
(* Claims about the routing engine *)

\* C1: in a completed RowFirst/ColumnFirst pass on any R x C mesh, every edge
\* between two on-mesh cores takes exactly Manhattan-distance many hops, ends
\* on its destination core, and each hop adds the edge's cost to exactly one link.
C1_ManhattanConservation ==
    result = "ok" =>
        /\ \A k \in 1..Len(walks) :
              /\ walks[k].end = walks[k].destination
              /\ Len(walks[k].path) = Manhattan(walks[k].start, walks[k].destination)
        /\ \A i \in DOMAIN connections : \A side \in Sides :
              LinkCost(i, side) = PathLoad(walks, i, side) % (U8Max + 1)

\* C2: after any sequence of successful route calls the link loads and the
\* report are those of the last call made alone on the freshly ingested topology.
C2_RouteFromScratch ==
    result = "ok" =>
        \E checks \in BOOLEAN :
        \E fresh \in {task_graph_route_outcome(Unwrap(algorithm), cores, task_core_map,
                                               task_graph, columns, rows, checks,
                                               FreshConnections)} :
            /\ fresh.status = "ok"
            /\ connections = fresh.connections
            /\ report = fresh.ret

\* A second (or later) successful call that left load on some link.
C2_Witness ==
    /\ calls >= 2
    /\ result = "ok"
    /\ \E i \in DOMAIN connections : \E side \in Sides : LinkCost(i, side) > 0

\* C3: a task graph with an edge whose from or to task is allocated nowhere
\* makes the routing pass return an error and no report, wherever the edge is.
C3_MalformedEdgeIsError ==
    (calls > 0 /\ \E k \in 1..Len(task_graph) : Malformed(task_graph[k])) =>
        /\ result = "err"
        /\ report = EmptyRet(connections)

\* C4: a routing pass that fails part-way leaves no load behind: every link
\* load is the cleared value 0.
C4_NoPartialLoadOnFailure ==
    result = "err" => \A i \in DOMAIN connections : \A side \in Sides : LinkCost(i, side) = 0

\* C5: the engine derives row = id / C and col = id % C for the start and the
\* destination core of every edge, on every R x C mesh.
C5_RowIsIdDivColumns ==
    \A k \in 1..Len(walks) :
        /\ walks[k].start_row = walks[k].start \div columns
        /\ walks[k].start_column = walks[k].start % columns
        /\ walks[k].destination_row = walks[k].destination \div columns
        /\ walks[k].destination_column = walks[k].destination % columns

\* The 3x3 scenario: task 2 on core 7, task 3 on core 1, RowFirst completed.
Scenario3x3 ==
    /\ rows = 3 /\ columns = 3
    /\ task_core_map[2] = 7 /\ task_core_map[3] = 1
    /\ algorithm = Some("RowFirst")
    /\ result = "ok"

Edge23 == [from |-> 2, to |-> 3, communication_cost |-> 50]

\* C10 (as amended): in the 3x3 scenario the edge (2, 3, 50) takes two hops,
\* core 7 North then core 4 North, and ends on core 1; routed alone it leaves
\* 50 on these two links and nothing on any other link (core 1 has no North link).
C10_TwoHopsNorth ==
    Scenario3x3 =>
        /\ \A k \in 1..Len(task_graph) :
              task_graph[k] = Edge23 =>
                  /\ walks[k].path = << <<7, "top">>, <<4, "top">> >>
                  /\ walks[k].end = 1
        /\ task_graph = <<Edge23>> =>
              /\ connections[1]["top"] = None
              /\ \A i \in DOMAIN connections : \A side \in Sides :
                    LinkCost(i, side) = IF <<i, side>> \in {<<7, "top">>, <<4, "top">>}
                                        THEN 50 ELSE 0

C10_Witness == Scenario3x3 /\ task_graph = <<Edge23>> /\ LinkCost(7, "top") = 50

\* C10 (original): the edge takes three hops and also adds 50 to core 1's North link.
C10_ThreeHopsOriginal ==
    (Scenario3x3 /\ task_graph = <<Edge23>>) =>
        /\ Len(walks[1].path) = 3
        /\ LinkCost(7, "top") = 50
        /\ LinkCost(4, "top") = 50
        /\ LinkCost(1, "top") = 50

-----------------------------------------------------------------------------
(* Claims about the boundary classification *)

LastRow == rows - 1
LastCol == columns - 1

Corners == {0, columns - 1, columns * (rows - 1), rows * columns - 1}

OnBorder(id) == Row(id) \in {0, LastRow} \/ Col(id) \in {0, LastCol}

\* Number of border directions the classification of a core permits.
PermittedCount(edge) == IF IsSome(edge) THEN Len(SinkSourceDirections(Unwrap(edge))) ELSE 0

\* Compass directions in which core id has no adjacent core inside the mesh.
Exposed(id) ==
    {d \in Directions :
        \/ d = "North" /\ Row(id) = 0
        \/ d = "South" /\ Row(id) = LastRow
        \/ d = "West" /\ Col(id) = 0
        \/ d = "East" /\ Col(id) = LastCol}

\* C6: for R, C >= 2 the ids 0, C-1, C*(R-1), R*C-1 classify as TopLeft,
\* TopRight, BottomLeft, BottomRight with 2 permitted directions each, every
\* other id of the first/last row or column classifies as an edge with 1
\* permitted direction, and every remaining id as interior with none.
C6_BoundaryClassification ==
    (rows >= 2 /\ columns >= 2) =>
        \A id \in classified :
            /\ id = 0 => matrix_edge[id] = Some("TopLeft")
            /\ id = columns - 1 => matrix_edge[id] = Some("TopRight")
            /\ id = columns * (rows - 1) => matrix_edge[id] = Some("BottomLeft")
            /\ id = rows * columns - 1 => matrix_edge[id] = Some("BottomRight")
            /\ id \in Corners => PermittedCount(matrix_edge[id]) = 2
            /\ (id \notin Corners /\ OnBorder(id)) =>
                  /\ IsSome(matrix_edge[id])
                  /\ Unwrap(matrix_edge[id]) \in {"Top", "Bottom", "Left", "Right"}
                  /\ PermittedCount(matrix_edge[id]) = 1
            /\ ~OnBorder(id) =>
                  /\ matrix_edge[id] = None
                  /\ PermittedCount(matrix_edge[id]) = 0

\* A 3x3 mesh with every core classified: four corners, four edges, one interior.
C6_Witness ==
    /\ rows = 3 /\ columns = 3
    /\ classified = 0..8
    /\ matrix_edge[8] = Some("BottomRight")
    /\ matrix_edge[7] = Some("Bottom")
    /\ matrix_edge[4] = None

\* C7: for R, C >= 1 the directions the classification of a core permits are
\* exactly the directions in which the core has no neighbour inside the mesh.
C7_PermittedIsExposed ==
    \A id \in classified :
        (IF IsSome(matrix_edge[id]) THEN DirectionSet(Unwrap(matrix_edge[id])) ELSE {})
            = Exposed(id)

-----------------------------------------------------------------------------
(* Claims about routing through border endpoints *)

RECURSIVE SeqSum(_)
SeqSum(seq) == IF seq = <<>> THEN 0 ELSE Head(seq) + SeqSum(Tail(seq))

DirectionSeq == <<"North", "South", "West", "East">>

\* The core a task id of the task graph stands for.
EndpointCore(t) ==
    IF t \in DOMAIN task_core_map THEN task_core_map[t]
    ELSE IF t \in DOMAIN sinks THEN sinks[t].core_id
    ELSE sources[t].core_id

\* Task t is a border endpoint of the given kind (a map of Sources or Sinks)
\* attached to core i on direction d.
AttachedAt(kind, t, i, d) ==
    /\ t \notin DOMAIN task_core_map
    /\ t \in DOMAIN kind
    /\ kind[t].core_id = i
    /\ kind[t].direction = d

IsSourceEdge(edge, i, d) == edge.from \notin DOMAIN sinks /\ AttachedAt(sources, edge.from, i, d)
IsSinkEdge(edge, i, d) == AttachedAt(sinks, edge.to, i, d)

\* The dimension-order path from core s to core t leaves core i in direction d.
OnRoute(policy, s, t, i, d) ==
    LET vcol == IF policy = "RowFirst" THEN Col(s) ELSE Col(t)
        hrow == IF policy = "RowFirst" THEN Row(t) ELSE Row(s)
    IN CASE d = "North" -> Col(i) = vcol /\ Row(t) < Row(i) /\ Row(i) <= Row(s)
         [] d = "South" -> Col(i) = vcol /\ Row(s) <= Row(i) /\ Row(i) < Row(t)
         [] d = "West" -> Row(i) = hrow /\ Col(t) < Col(i) /\ Col(i) <= Col(s)
         [] d = "East" -> Row(i) = hrow /\ Col(s) <= Col(i) /\ Col(i) < Col(t)

CostIf(edge, condition) == IF condition THEN edge.communication_cost ELSE 0

\* Load the hops of all edges put on the channel of core i in direction d.
HopLoad(i, d) ==
    SeqSum([k \in 1..Len(task_graph) |->
        CostIf(task_graph[k], OnRoute(Unwrap(algorithm), EndpointCore(task_graph[k].from),
                                      EndpointCore(task_graph[k].to), i, d))])

\* Load the edges that end in a Sink on core i, direction d, put on that channel.
SinkLoad(i, d) ==
    SeqSum([k \in 1..Len(task_graph) |-> CostIf(task_graph[k], IsSinkEdge(task_graph[k], i, d))])

\* Load the edges that start in a Source on core i, direction d, bring in.
SourceLoad(i, d) ==
    SeqSum([k \in 1..Len(task_graph) |-> CostIf(task_graph[k], IsSourceEdge(task_graph[k], i, d))])

ChannelLoad(i, d) == IF d \in DOMAIN channels[i] THEN channels[i][d] ELSE 0

SourceLoadOf(i, d) ==
    IF IsSome(source_loads[i]) /\ d \in DOMAIN Unwrap(source_loads[i])
    THEN Unwrap(source_loads[i])[d] ELSE 0

\* Sum of the loads of all channels of all cores.
TotalChannelLoad ==
    SeqSum([i \in 1..(rows * columns) |->
        SeqSum([j \in 1..4 |-> ChannelLoad(i - 1, DirectionSeq[j])])])

\* Number of channel additions the edge is due: its hops, plus one for a Sink.
DueAdditions(edge) ==
    Manhattan(EndpointCore(edge.from), EndpointCore(edge.to))
        + (IF \E i \in DOMAIN channels : \E d \in Directions : IsSinkEdge(edge, i, d) THEN 1 ELSE 0)

-----------------------------------------------------------------------------
(* Claims about the load mutators *)

Min(a, b) == IF a <= b THEN a ELSE b

Called(op) == calls > 0 /\ last_call.op = op

\* The source loads of a core as a map, empty when there are none.
LoadMap(loads) == IF IsSome(loads) THEN Unwrap(loads) ELSE <<>>

LoadIn(map, d) == IF d \in DOMAIN map THEN map[d] ELSE 0

\* C11: adding a cost to a core's channel in a direction returns a
\* RoutingError and changes no load when the core has no such channel; when it
\* has, the call succeeds, that channel's load grows by the cost and the other
\* channels of the core keep theirs.
C11_AddToCostContract ==
    Called("add_to_cost") =>
        IF last_call.direction \notin DOMAIN last_call.channel_before
        THEN /\ result = "err"
             /\ channels[last_call.core] = last_call.channel_before
        ELSE /\ result = "ok"
             /\ channels[last_call.core] =
                   [last_call.channel_before EXCEPT ![last_call.direction] = @ + last_call.cost]

\* C12: an addition to the u16 load of an existing channel saturates: it never
\* aborts the pass and the load ends at the sum, or at 65535 when the sum is larger.
C12_ChannelLoadSaturates ==
    (Called("add_to_cost") /\ last_call.direction \in DOMAIN last_call.channel_before) =>
        /\ result = "ok"
        /\ channels[last_call.core][last_call.direction] =
              Min(last_call.channel_before[last_call.direction] + last_call.cost, U16Max)

\* C13: adding a source load fails iff the core has no boundary classification,
\* and then leaves source_loads as it was; on success only the entry of the
\* direction changes, by a saturating addition of the load.
C13_AddSourceLoadContract ==
    Called("add_source_load") =>
        /\ result \in {"ok", "err"}
        /\ result = "err" <=> matrix_edge[last_call.core] = None
        /\ result = "err" => source_loads[last_call.core] = last_call.loads_before
        /\ result = "ok" =>
              /\ IsSome(source_loads[last_call.core])
              /\ DOMAIN LoadMap(source_loads[last_call.core])
                    = DOMAIN LoadMap(last_call.loads_before) \cup {last_call.direction}
              /\ \A d \in DOMAIN LoadMap(source_loads[last_call.core]) :
                    LoadMap(source_loads[last_call.core])[d] =
                        IF d = last_call.direction
                        THEN Min(LoadIn(LoadMap(last_call.loads_before), d) + last_call.cost, U16Max)
                        ELSE LoadMap(last_call.loads_before)[d]

\* A source load of 40000 added to a source load of 40000 on the corner core:
\* the call succeeds and the entry is 65535.
C13_Witness ==
    /\ Called("add_source_load")
    /\ result = "ok"
    /\ last_call.core = 0
    /\ last_call.cost = 40000
    /\ LoadIn(LoadMap(last_call.loads_before), last_call.direction) = 40000
    /\ LoadMap(source_loads[0])[last_call.direction] = U16Max

-----------------------------------------------------------------------------
(* Claims about ingestion *)

\* Ids of the cores of the input, in input order.
InputIds == [k \in 1..Cardinality(DOMAIN last_call.cores) |-> last_call.cores[k - 1].id]

MeshIds == 0..(rows * columns - 1)

\* The input has every id of the mesh exactly once.
ExactIds ==
    /\ Len(InputIds) = rows * columns
    /\ \A id \in MeshIds : \E k \in 1..Len(InputIds) : InputIds[k] = id

\* The input is a full mesh with one id removed or with one id duplicated.
OneIdOff ==
    \/ /\ Len(InputIds) = rows * columns - 1
       /\ \A j, k \in 1..Len(InputIds) : InputIds[j] = InputIds[k] => j = k
       /\ \A k \in 1..Len(InputIds) : InputIds[k] \in MeshIds
    \/ /\ Len(InputIds) = rows * columns + 1
       /\ \A id \in MeshIds : \E k \in 1..Len(InputIds) : InputIds[k] = id
       /\ \A k \in 1..Len(InputIds) : InputIds[k] \in MeshIds

Ingested == last_call.op = "parse_file" /\ last_call.well_formed

\* C14: ingestion of a well-formed input succeeds when the core ids are
\* exactly 0..R*C, in any order, and fails with an error when one id of such
\* a topology is removed or duplicated.
C14_IdsValidated ==
    Ingested =>
        /\ ExactIds => result = "ok"
        /\ OneIdOff => result = "err"

\* C15: ingestion of an input whose number of cores differs from R*C returns
\* an error, and ingestion of an input with R*C = 0 and no cores does not panic.
C15_CoreCountValidated ==
    Ingested =>
        /\ Len(InputIds) # rows * columns => result = "err"
        /\ (Len(InputIds) = 0 /\ rows * columns = 0) => result # "panic"

\* The directions the position of core id on the mesh permits.
Permitted(id) ==
    IF IsSome(calculate_edge(id, columns, rows))
    THEN DirectionSet(Unwrap(calculate_edge(id, columns, rows)))
    ELSE {}

\* C16: after a successful ingestion every Source and Sink sits on a core of
\* the mesh boundary with a direction that the core's classification permits.
C16_BordersValidated ==
    (Ingested /\ result = "ok") =>
        \A c \in DOMAIN sources :
            /\ sources[c].core_id \in MeshIds
            /\ sources[c].direction \in Permitted(sources[c].core_id)

-----------------------------------------------------------------------------
(* Claims about Observed routing *)

\* Packets transmitted by core i on an output direction, 0 without such a FIFO.
Baseline(i, direction) ==
    IF IsSome(cores[i].fifos) /\ direction \in DOMAIN Unwrap(cores[i].fifos)
    THEN Unwrap(cores[i].fifos)[direction] ELSE 0

Reported(i, direction) == \E k \in 1..Len(report[i]) : report[i][k] = direction

\* C17: after an Observed pass the load of every link is the packets
\* transmitted on its direction (0 when there are none), for every u16 value,
\* and the report lists a core and direction iff that value is non-zero.
C17_ObservedLoadIsBaseline ==
    (result = "ok" /\ algorithm = Some("Observed")) =>
        \A i \in DOMAIN connections : \A direction \in OutputDirections :
            /\ LinkCost(i, OutputSide(direction)) = Baseline(i, direction)
            /\ Reported(i, direction) <=> Baseline(i, direction) # 0

-----------------------------------------------------------------------------
(* Claims about threaded ingestion *)

\* Threads past their admission gate that have not finished.
Running == {w \in 1..Len(workers) : workers[w] = "running"}

\* C18: the ingestion call never returns success after an internal error of
\* the parallel section (an XML read error in the reader loop).
C18_InternalErrorIsReported ==
    (reader.pc = "returned" /\ reader.scope_result = "err") => result = "err"

\* C19: the number of running worker threads never exceeds
\* min(available_parallelism, core_count), and every worker has finished when
\* the ingestion call has returned.
C19_BoundedWorkers ==
    /\ Cardinality(Running) <= Min(reader.max_threads, reader.file.core_count)
    /\ reader.pc = "returned" => \A w \in 1..Len(workers) : workers[w] = "done"

\* Two threads spawned with a parallelism of 1: one is running, the other
\* is held back.
C19_Witness ==
    /\ reader.max_threads = 1
    /\ Len(workers) = 2
    /\ workers[1] = "running"
    /\ workers[2] = "spawned"

-----------------------------------------------------------------------------
(* Claims about direction strings *)

DirectionStrings == {"North", "South", "West", "East"}

\* The string handed to the conversion of the last call.
Converted == last_call.group_id.rest[1]

\* C20 as stated: a string that is not "North", "South", "West" or "East"
\* converts to an error of kind RoutingError, and each of the four converts to
\* a direction that converts back to the same string.
C20_InvalidDirectionIsRoutingError ==
    last_call.op = "try_from" =>
        IF Converted \in DirectionStrings
        THEN result = "ok" /\ report.val = Converted
        ELSE result = "err" /\ report.kind = "RoutingError"

\* C20 amended: a string that is not "North", "South", "West" or "East"
\* converts to an error of kind GenerationError, and each of the four converts
\* to a direction that converts back to the same string.
C20_InvalidDirectionIsGenerationError ==
    last_call.op = "try_from" =>
        IF Converted \in DirectionStrings
        THEN result = "ok" /\ report.val = Converted
        ELSE result = "err" /\ report.kind = "GenerationError"

\* The string "north" was converted: an error.
C20_Witness ==
    /\ last_call.op = "try_from"
    /\ Converted = "north"
    /\ result = "err"

-----------------------------------------------------------------------------
(* The channels map of a router: channels.rs.  A BTreeMap is a function on  *)
(* its keys, iterated in the order of the keys.                              *)

MaxChannels == 4

\* Directions, were East declared before West.
Directions_ord_east_first(direction) ==
    CASE direction = "North" -> 0
      [] direction = "South" -> 1
      [] direction = "East" -> 2
      [] direction = "West" -> 3

\* #[derive(PartialOrd, Ord)] on enum Directions: the order of declaration
Directions_ord(direction) ==
    CASE direction = "North" -> 0
      [] direction = "South" -> 1
      [] direction = "West" -> 2
      [] direction = "East" -> 3

\* BTreeMap::insert
BTreeMap_insert(map, key, value) ==
    [k \in DOMAIN map \cup {key} |-> IF k = key THEN value ELSE map[k]]

RECURSIVE BTreeMap_values(_)
\* BTreeMap::values: the values in the order of their keys
BTreeMap_values(map) ==
    IF DOMAIN map = {} THEN <<>>
    ELSE LET first == CHOOSE k \in DOMAIN map :
                          \A other \in DOMAIN map : Directions_ord(k) <= Directions_ord(other)
         IN <<map[first]>> \o BTreeMap_values([k \in DOMAIN map \ {first} |-> map[k]])

RECURSIVE deserialize_channels_from(_, _)
\* The loop of Channels::deserialize_channels over what is left of channel_vec
deserialize_channels_from(channel_vec, ret) ==
    IF channel_vec = <<>> THEN ret
    ELSE deserialize_channels_from(Tail(channel_vec),
                                   BTreeMap_insert(ret, Head(channel_vec).direction, Head(channel_vec)))

\* Channels::deserialize_channels
deserialize_channels(channel_vec) == deserialize_channels_from(channel_vec, <<>>)

\* Channels::serialize_channels
serialize_channels(channel) == BTreeMap_values(channel)

\* The Channel elements of a router in the input, in any order.
InputChannels ==
    UNION {[1..n -> [direction : Directions, bandwidth : {1, 2}]] : n \in 0..MaxChannels}

ChannelsUnchanged ==
    UNCHANGED <<rows, columns, cores, task_graph, task_core_map, connections, algorithm,
                walks, calls, cores_vars, source_loads, sources, sinks, deser_vars, border_map_vars>>

\* Deserialising the Channels element of last_call
DeserializeChannels ==
    /\ last_call.op = "input"
    /\ channels' = deserialize_channels(last_call.channel_vec)
    /\ last_call' = [last_call EXCEPT !.op = "deserialize_channels"]
    /\ result' = "ok"
    /\ UNCHANGED report
    /\ ChannelsUnchanged

\* Serialising the channels map
SerializeChannels ==
    /\ last_call.op = "deserialize_channels"
    /\ report' = serialize_channels(channels)
    /\ last_call' = [last_call EXCEPT !.op = "serialize_channels"]
    /\ UNCHANGED <<channels, result>>
    /\ ChannelsUnchanged

InitChannelsMap ==
    /\ \E channel_vec \in InputChannels : last_call = [op |-> "input", channel_vec |-> channel_vec]
    /\ channels = <<>>
    /\ report = <<>>
    /\ result = "none"
    /\ rows = 0
    /\ columns = 0
    /\ cores = <<>>
    /\ task_core_map = <<>>
    /\ connections = <<>>
    /\ task_graph = <<>>
    /\ algorithm = None
    /\ walks = <<>>
    /\ calls = 0
    /\ matrix_edge = <<>>
    /\ classified = {}
    /\ source_loads = <<>>
    /\ sources = <<>>
    /\ sinks = <<>>
    /\ core_border_map = <<>>
    /\ reader = <<>>
    /\ workers = <<>>
    /\ semaphore = <<>>

NextChannelsMap == DeserializeChannels \/ SerializeChannels

SpecChannelsMap == InitChannelsMap /\ [][NextChannelsMap]_vars

-----------------------------------------------------------------------------
(* Claims about the order of channels *)

\* The directions of the input channels.
InputDirections == {last_call.channel_vec[n].direction : n \in DOMAIN last_call.channel_vec}

\* The position of a direction in a sequence of directions.
PositionIn(order, direction) == CHOOSE n \in DOMAIN order : order[n] = direction

\* The serialised channels are the input's directions, once each, in the
\* given order.
SerialisedInOrder(order) ==
    /\ {report[n].direction : n \in DOMAIN report} = InputDirections
    /\ \A m, n \in DOMAIN report :
          m < n => PositionIn(order, report[m].direction) < PositionIn(order, report[n].direction)

\* C21 as stated: whatever the order of the channels in the input, the
\* serialised channels map lists them in the order North, South, East, West.
C21_CanonicalOrderEastFirst ==
    last_call.op = "serialize_channels" =>
        SerialisedInOrder(<<"North", "South", "East", "West">>)

\* C21 amended: whatever the order of the channels in the input, the
\* serialised channels map lists them in the order North, South, West, East.
C21_CanonicalOrderWestFirst ==
    last_call.op = "serialize_channels" =>
        SerialisedInOrder(<<"North", "South", "West", "East">>)

\* An input listing East, West, South and North in that order was serialised.
C21_Witness ==
    /\ last_call.op = "serialize_channels"
    /\ Len(last_call.channel_vec) = 4
    /\ [n \in 1..4 |-> last_call.channel_vec[n].direction] = <<"East", "West", "South", "North">>
    /\ Len(report) = 4

-----------------------------------------------------------------------------
(* Claims about element information *)

\* The last call asked for the information of an element.
InfoAsked == last_call.op \in {"get_info", "get_info_lib"}

\* The group id of the last call is a single part.
PlainGroup == last_call.group_id.rest = <<>>

\* The characters of the group id after its variant letter.
IndexChars == Tail(last_call.group_id.head)

\* The characters after the variant letter are a decimal number without
\* leading zeros.
IsDecimal ==
    /\ IndexChars # <<>>
    /\ \A n \in DOMAIN IndexChars : IsSome(to_digit(IndexChars[n]))
    /\ Len(IndexChars) > 1 => IndexChars[1] # "0"

RECURSIVE DecimalValue(_)
\* The number a sequence of digits denotes.
DecimalValue(chars) ==
    IF chars = <<>> THEN 0
    ELSE 10 * DecimalValue(SubSeq(chars, 1, Len(chars) - 1)) + Unwrap(to_digit(chars[Len(chars)]))

\* The information of the router or the core at an index.
InfoOf(variant, n) ==
    IF variant = "r" THEN cores[n].router_attributes
    ELSE Some([element |-> "core", id |-> cores[n].id, allocated_task |-> cores[n].allocated_task])

\* C22: a group id of 'r' or 'c' followed by the decimal index n of an
\* existing core yields the information of the element at index n, also for n
\* of two or more digits; an empty group id, an unknown variant letter and an
\* index with no core yield an InfoError.
C22_InfoByDecimalIndex ==
    (InfoAsked /\ PlainGroup) =>
        /\ last_call.group_id.head = <<>> => (result = "err" /\ report.kind = "InfoError")
        /\ (last_call.group_id.head # <<>> /\ IsDecimal) =>
              IF last_call.group_id.head[1] \in {"r", "c"} /\ DecimalValue(IndexChars) \in DOMAIN cores
              THEN result = "ok" /\ report.val = InfoOf(last_call.group_id.head[1], DecimalValue(IndexChars))
              ELSE result = "err" /\ report.kind = "InfoError"

-----------------------------------------------------------------------------
(* Claims about the connections and indices built by parse_file *)

\* Index j is an existing core next to core index i on a side of the mesh.
GridAdjacent(i, j, side) ==
    /\ j \in DOMAIN cores
    /\ CASE side = "top" -> j = i - columns
         [] side = "right" -> j = i + 1 /\ j \div columns = i \div columns
         [] side = "bottom" -> j = i + columns
         [] side = "left" -> j = i - 1 /\ j \div columns = i \div columns

\* C23: after parse_file, connections[i] records neighbour j on a side if and
\* only if j is an existing core adjacent to i on that side of the mesh, and
\* no recorded neighbour id is outside [0, core_count).
C23_NeighboursAreAdjacentCores ==
    (Ingested /\ result = "ok") =>
        \A i \in DOMAIN connections : \A side \in {"top", "right", "bottom", "left"} :
            /\ IsSome(connections[i][side]) <=> \E j \in DOMAIN cores : GridAdjacent(i, j, side)
            /\ IsSome(connections[i][side]) =>
                  /\ GridAdjacent(i, Unwrap(connections[i][side]).id, side)
                  /\ Unwrap(connections[i][side]).id \in DOMAIN cores

-----------------------------------------------------------------------------
(* Claims about the hop loop of RowFirst and ColumnFirst *)

\* The destination value of the counter an iteration moved.
DestinationOf(w, step) ==
    IF step.counter = "current_row" THEN w.destination_row ELSE w.destination_column

\* The iteration returned an error, or moved its counter exactly one step
\* closer to the destination's.
ErrOrCloser(w, step) ==
    \/ step.status = "err" /\ step.after = step.before
    \/ /\ step.status = "ok"
       /\ Abs(step.after - DestinationOf(w, step)) = Abs(step.before - DestinationOf(w, step)) - 1

\* C24: the hop loop terminates: every iteration returns an error, stops with
\* both coordinates matching, or moves the current row or column exactly one
\* step closer to the destination's, so a walk has no more iterations that
\* move than the two coordinates are apart.
C24_WalkProgresses ==
    \A k \in DOMAIN walks :
        /\ \A n \in DOMAIN walks[k].steps : ErrOrCloser(walks[k], walks[k].steps[n])
        /\ Len(walks[k].steps) <= Abs(walks[k].start_row - walks[k].destination_row)
                                  + Abs(walks[k].start_column - walks[k].destination_column)

\* The sides the hops of a path go over, in order.
SidesOf(path) == [n \in DOMAIN path |-> path[n][2]]

Vertical == {"top", "bottom"}
Horizontal == {"left", "right"}

\* Every hop over a side in first comes before every hop over a side in second.
AllBefore(hops, first, second) ==
    \A m, n \in DOMAIN hops : (hops[m] \in second /\ hops[n] \in first) => n < m

\* The hops of a path use one vertical side at most and one horizontal side at most.
OneWay(hops) ==
    /\ Cardinality({hops[n] : n \in DOMAIN hops} \cap Vertical) <= 1
    /\ Cardinality({hops[n] : n \in DOMAIN hops} \cap Horizontal) <= 1

\* C25: within the walk of one edge RowFirst makes all its North/South hops
\* before any East/West hop and ColumnFirst all its East/West hops before any
\* North/South hop, and all vertical hops of the walk go one way and all
\* horizontal hops go one way.
C25_DimensionOrder ==
    \A k \in DOMAIN walks :
        /\ algorithm = Some("RowFirst") => AllBefore(SidesOf(walks[k].path), Vertical, Horizontal)
        /\ algorithm = Some("ColumnFirst") => AllBefore(SidesOf(walks[k].path), Horizontal, Vertical)
        /\ OneWay(SidesOf(walks[k].path))

\* A successful RowFirst pass whose first walk hops vertically and horizontally.
C25_Witness ==
    /\ algorithm = Some("RowFirst")
    /\ result = "ok"
    /\ Len(walks) > 0
    /\ \E m, n \in DOMAIN walks[1].path :
          walks[1].path[m][2] \in Vertical /\ walks[1].path[n][2] \in Horizontal

-----------------------------------------------------------------------------
(* Routing passes and load operations on one system: routing.rs, channels.rs, *)
(* cores.rs.  The fixed attributes of the channels are part of the cores.     *)

\* Task graphs of the system: empty, one edge, one edge of cost 0, an edge
\* followed by one with an unallocated task, two edges that overflow a u8
\* link cost.
FrameGraphs ==
    { <<>>,
      <<[from |-> 2, to |-> 3, communication_cost |-> 50]>>,
      <<[from |-> 2, to |-> 3, communication_cost |-> 0]>>,
      <<[from |-> 2, to |-> 3, communication_cost |-> 50],
        [from |-> 2, to |-> 9, communication_cost |-> 50]>>,
      <<[from |-> 2, to |-> 3, communication_cost |-> 200],
        [from |-> 2, to |-> 3, communication_cost |-> 200]>> }

\* FIFOs of the four cores: none, or packets transmitted on cores 0 and 3.
FrameFifos ==
    { [i \in 0..3 |-> None],
      [i \in 0..3 |->
          IF i = 0 THEN Some([d \in {"EastOutput", "SouthOutput"} |-> IF d = "EastOutput" THEN 5 ELSE 300])
          ELSE IF i = 3 THEN Some([d \in {"NorthOutput", "EastOutput"} |-> 7])
          ELSE None] }

\* The loads the load operations are called with.
FrameCosts == {1, U16Max}

\* A 2x2 mesh after parse_file: tasks 2 and 3 on two cores, connections and
\* channels towards the cores of the mesh, all loads zero.
InitFrame ==
    /\ rows = 2
    /\ columns = 2
    /\ \E p \in {<<0, 3>>, <<2, 1>>} : \E f \in FrameFifos :
          cores = [i \in 0..3 |->
                      [id |-> i,
                       allocated_task |-> IF i = p[1] THEN Some(AllocatedTasks[1])
                                          ELSE IF i = p[2] THEN Some(AllocatedTasks[2])
                                          ELSE None,
                       fifos |-> f[i],
                       channel_attributes |->
                           [d \in DOMAIN InitChannels(calculate_edge(i, columns, rows), FALSE) |->
                               [bandwidth |-> 400, actual_com_cost |-> 30 + i]]]]
    /\ task_core_map = parse_task_core_map(cores, 3)
    /\ connections = parse_connections(columns, 3)
    /\ task_graph \in FrameGraphs
    /\ algorithm = None
    /\ result = "none"
    /\ report = EmptyRet(connections)
    /\ walks = <<>>
    /\ calls = 0
    /\ matrix_edge = [i \in 0..3 |-> calculate_edge(i, columns, rows)]
    /\ classified = 0..3
    /\ channels = [i \in 0..3 |-> InitChannels(matrix_edge[i], FALSE)]
    /\ source_loads = [i \in 0..3 |-> None]
    /\ sources = <<>>
    /\ sinks = <<>>
    /\ core_border_map = <<>>
    /\ last_call = <<>>
    /\ reader = <<>>
    /\ workers = <<>>
    /\ semaphore = <<>>

NextFrame ==
    \/ \E alg \in RoutingAlgorithms : task_graph_route(alg)
    \/ observed_route
    \/ \E cost \in FrameCosts : \E direction \in Directions : AddToCost(0, cost, direction)
    \/ \E load \in FrameCosts : \E direction \in Directions : AddSourceLoad(0, load, direction)
    \/ ClearLoads(0)
    \/ ClearSourceLoads(0)

SpecFrame == InitFrame /\ [][NextFrame]_vars

-----------------------------------------------------------------------------
(* Claims about what routing and load clearing leave alone *)

\* The shape of the topology: the cores with the fixed attributes of their
\* channels, the neighbour ids on every side, the directions of every core's
\* channels, the task graph and the task -> core index.
Shape ==
    [cores |-> cores,
     rows |-> rows,
     columns |-> columns,
     neighbours |-> [i \in DOMAIN connections |->
                        [side \in Sides |->
                            IF IsSome(connections[i][side])
                            THEN Some(Unwrap(connections[i][side]).id) ELSE None]],
     directions |-> [i \in DOMAIN channels |-> DOMAIN channels[i]],
     task_graph |-> task_graph,
     task_core_map |-> task_core_map]

\* C26: no routing pass, successful or failed, and no load operation changes
\* the shape of the topology; only load values change.
C26_ShapeIsFrozen == [][Shape' = Shape]_vars

\* A pass has added link costs and the channel loads of a core were cleared
\* after a load was added to them.
C26_Witness ==
    /\ algorithm # None
    /\ \E i \in DOMAIN connections : \E side \in Sides :
          IsSome(connections[i][side]) /\ Unwrap(connections[i][side]).link_cost > 0
    /\ last_call # <<>>
    /\ last_call.op = "clear_loads"
    /\ \E d \in DOMAIN last_call.channel_before : last_call.channel_before[d] > 0

\* C27: after ingestion the router of every core has the id of its core, and
\* the task -> core index holds exactly the pairs (t, id of core c) for the
\* cores c with an allocated task t.
C27_RouterIdsAndTaskIndex ==
    (Ingested /\ result = "ok") =>
        /\ \A i \in DOMAIN cores : cores[i].router_id = cores[i].id
        /\ \A i \in DOMAIN cores :
              IsSome(cores[i].allocated_task) =>
                  /\ Unwrap(cores[i].allocated_task) \in DOMAIN task_core_map
                  /\ task_core_map[Unwrap(cores[i].allocated_task)] = cores[i].id
        /\ \A t \in DOMAIN task_core_map :
              \E i \in DOMAIN cores :
                  cores[i].allocated_task = Some(t) /\ task_core_map[t] = cores[i].id

-----------------------------------------------------------------------------
(* Claims about the chunks of the parallel ingestion *)

\* The positions in the input of the cores handed to worker w.
ChunkOf(w) == reader.chunks[w].first .. reader.chunks[w].last

\* C28: when the parallel ingestion of a readable file has returned, every
\* core of the input was handed to exactly one worker: the chunks are
\* disjoint runs of consecutive cores that cover all cores, a last chunk
\* smaller than the chunk size included.
C28_ChunksCoverAllCores ==
    (reader.pc = "returned" /\ reader.file.openable /\ ~reader.file.corrupt) =>
        /\ Len(reader.chunks) = Len(workers)
        /\ \A v, w \in DOMAIN reader.chunks : v # w => ChunkOf(v) \cap ChunkOf(w) = {}
        /\ UNION {ChunkOf(w) : w \in DOMAIN reader.chunks} = 1..reader.file.core_count

-----------------------------------------------------------------------------
(* Claims about the report of a pass *)

\* C29: the report of a RowFirst or ColumnFirst pass holds a direction for a
\* core only if the link of that core in that direction has a non-zero load
\* at the end of the pass, whatever the costs of the edges, 0 included.
C29_ReportOnlyNonZero ==
    (algorithm \in {Some("RowFirst"), Some("ColumnFirst")} /\ result = "ok") =>
        \A i \in DOMAIN report : \A k \in DOMAIN report[i] :
            LinkCost(i, OutputSide(report[i][k])) # 0

-----------------------------------------------------------------------------
(* The index of border endpoints: borders.rs *)

\* HashMap::insert
HashMap_insert(map, key, value) ==
    [k \in DOMAIN map \cup {key} |-> IF k = key THEN value ELSE map[k]]

RECURSIVE BTreeMap_values_by_id(_)
\* BTreeMap::values on a map keyed by task id: the values by ascending key
BTreeMap_values_by_id(map) ==
    IF DOMAIN map = {} THEN <<>>
    ELSE LET first == CHOOSE k \in DOMAIN map : \A other \in DOMAIN map : k <= other
         IN <<map[first]>> \o BTreeMap_values_by_id([k \in DOMAIN map \ {first} |-> map[k]])

\* core_border_map.entry(core_id).or_insert(HashMap::new())
\*     .insert(direction, BorderEntry::Source(task_id) / Sink(task_id))
insert_border_entry(map, endpoint, kind) ==
    HashMap_insert(map, endpoint.core_id,
                   HashMap_insert(IF endpoint.core_id \in DOMAIN map THEN map[endpoint.core_id] ELSE <<>>,
                                  endpoint.direction,
                                  [kind |-> kind, task_id |-> endpoint.task_id]))

RECURSIVE insert_border_entries(_, _, _)
\* One of the for loops of compute_core_border_map over what is left of the values
insert_border_entries(map, endpoints, kind) ==
    IF endpoints = <<>> THEN map
    ELSE insert_border_entries(insert_border_entry(map, Head(endpoints), kind), Tail(endpoints), kind)

\* Borders::compute_core_border_map
compute_core_border_map(map, srcs, snks) ==
    insert_border_entries(insert_border_entries(map, BTreeMap_values_by_id(srcs), "Source"),
                          BTreeMap_values_by_id(snks), "Sink")

\* Endpoints of the input: a map from the task ids of a set to endpoints on
\* the West or North side of core 0 or core 1.
Endpoints(task_ids) ==
    UNION { { [t \in ids |-> [core_id |-> place[t][1], direction |-> place[t][2], task_id |-> t]] :
              place \in [ids -> {0, 1} \X {"West", "North"}] } :
            ids \in SUBSET task_ids }

\* self.compute_core_border_map()
ComputeCoreBorderMap ==
    /\ calls < MaxCalls
    /\ core_border_map' = compute_core_border_map(core_border_map, sources, sinks)
    /\ last_call' = [op |-> "compute_core_border_map", before |-> core_border_map]
    /\ calls' = calls + 1
    /\ result' = "ok"
    /\ UNCHANGED <<rows, columns, cores, task_graph, task_core_map, connections, algorithm,
                   report, walks, cores_vars, borders_vars, deser_vars>>

\* Borders as deserialised: any Sources with task ids among 0 and 1, any Sinks
\* with task ids among 1 and 5, and an empty index.
InitBorderMap ==
    /\ sources \in Endpoints({0, 1})
    /\ sinks \in Endpoints({1, 5})
    /\ core_border_map = <<>>
    /\ last_call = <<>>
    /\ calls = 0
    /\ result = "none"
    /\ rows = 2
    /\ columns = 2
    /\ cores = <<>>
    /\ task_core_map = <<>>
    /\ connections = <<>>
    /\ task_graph = <<>>
    /\ algorithm = None
    /\ report = <<>>
    /\ walks = <<>>
    /\ matrix_edge = <<>>
    /\ classified = {}
    /\ channels = <<>>
    /\ source_loads = <<>>
    /\ reader = <<>>
    /\ workers = <<>>
    /\ semaphore = <<>>

NextBorderMap == ComputeCoreBorderMap

SpecBorderMap == InitBorderMap /\ [][NextBorderMap]_vars

-----------------------------------------------------------------------------
(* Claims about the index of border endpoints *)

\* The index holds an entry of a kind for an endpoint.
Retrievable(endpoint, kind) ==
    /\ endpoint.core_id \in DOMAIN core_border_map
    /\ endpoint.direction \in DOMAIN core_border_map[endpoint.core_id]
    /\ core_border_map[endpoint.core_id][endpoint.direction] = [kind |-> kind, task_id |-> endpoint.task_id]

\* C30: after compute_core_border_map every Source and every Sink is
\* retrievable from the index at its core and direction with its own kind and
\* task id, the index holds no other entry, and a second call leaves the
\* index unchanged.
C30_BorderIndexComplete ==
    calls >= 1 =>
        /\ \A t \in DOMAIN sources : Retrievable(sources[t], "Source")
        /\ \A t \in DOMAIN sinks : Retrievable(sinks[t], "Sink")
        /\ \A c \in DOMAIN core_border_map : \A d \in DOMAIN core_border_map[c] :
              \/ \E t \in DOMAIN sources : sources[t].core_id = c /\ sources[t].direction = d
                                           /\ core_border_map[c][d] = [kind |-> "Source", task_id |-> t]
              \/ \E t \in DOMAIN sinks : sinks[t].core_id = c /\ sinks[t].direction = d
                                         /\ core_border_map[c][d] = [kind |-> "Sink", task_id |-> t]
        /\ calls >= 2 => core_border_map = last_call.before

====
